---- MODULE Spec2Model ----
(***************************************************************************)
(* AES-Blake (aabmets/aes-blake, py_ref): the AEAD driver BaseAESBlake     *)
(* with its two clean tiers (AESBlake256, AESBlake512), the BLAKE key      *)
(* generator (Blake32 / Blake64) and the cooperative AES block engine.     *)
(*                                                                         *)
(* Representation.  TLC integers are 32 bits wide, so a Uint32 / Uint64 is *)
(* kept as its value in base 2^16, most significant limb first (2 or 4     *)
(* limbs); wrapping addition, xor, and, or and rotation are computed on the*)
(* limbs to the result the Python code computes on the integer value.  A   *)
(* Uint8 is a number 0..255 and a bytes object is a sequence of such       *)
(* numbers.  Python indices are 0-based; At and Put keep the source's      *)
(* indices readable.                                                       *)
(***************************************************************************)
EXTENDS Integers, Sequences, FiniteSets, TLC

VARIABLES
    tier,            \* 256 or 512: the class (AESBlake256 / AESBlake512) in use
    key,             \* bytes the current cipher was constructed from
    nonce,
    context,
    keygen,          \* self.keygen: the Blake32 / Blake64 object of the cipher
    block_counter,   \* self.block_counter
    pc,              \* position of the driver inside encrypt / decrypt
    call,            \* the running (or last) call: op, text, header, auth_tag, start counter
    loc,             \* locals of encrypt / decrypt / compute_auth_tag
    rnd,             \* locals of run_encryption_rounds / run_decryption_rounds
    result,          \* outcome of the last finished call
    enc              \* record of the last encrypt call that returned

vars == << tier, key, nonce, context, keygen, block_counter, pc, call, loc,
           rnd, result, enc >>

----------------------------------------------------------------------------
(* Python sequence helpers                                                  *)

\* a Python list built by a comprehension: every element is computed once
List(f) == f \o << >>

\* Python runs its statements in order, TLC evaluates an argument when it is
\* first needed. A guard "x = x" makes x be computed there, before what it
\* guards, which keeps a long chain of statements from nesting in the evaluator.

\* Python evaluates an argument once, at the call: F applied to the value of x
ByValue(F(_), x) == CHOOSE r \in { F(v) : v \in { x } } : TRUE

At(s, i) == s[i + 1]

Put(s, i, x) == [s EXCEPT ![i + 1] = x]

\* s[a:b] of Python, clipped to the sequence like a Python slice
Slice(s, a, b) ==
    LET hi == IF b > Len(s) THEN Len(s) ELSE b
    IN  IF a >= hi THEN << >> ELSE List([i \in 1..(hi - a) |-> s[a + i]])

RECURSIVE Flatten(_)
Flatten(ss) == IF ss = << >> THEN << >> ELSE Head(ss) \o Flatten(Tail(ss))

Zeros(n) == List([i \in 1..n |-> 0])

----------------------------------------------------------------------------
(* BaseUint: 8-bit operators                                                *)

RECURSIVE BitXor(_, _, _)
BitXor(a, b, n) ==
    IF n = 0 THEN 0
    ELSE ((a + b) % 2) + 2 * BitXor(a \div 2, b \div 2, n - 1)

RECURSIVE BitAnd(_, _, _)
BitAnd(a, b, n) ==
    IF n = 0 THEN 0
    ELSE ((a % 2) * (b % 2)) + 2 * BitAnd(a \div 2, b \div 2, n - 1)

XorNibble ==
    List([a \in 1..16 |-> List([b \in 1..16 |-> BitXor(a - 1, b - 1, 4)])])

AndNibble ==
    List([a \in 1..16 |-> List([b \in 1..16 |-> BitAnd(a - 1, b - 1, 4)])])

XorByte ==
    List([a \in 1..256 |-> List([b \in 1..256 |->
        16 * XorNibble[((a - 1) \div 16) + 1][((b - 1) \div 16) + 1]
        + XorNibble[((a - 1) % 16) + 1][((b - 1) % 16) + 1]])])

\* Uint8.__xor__
Xor8(a, b) == XorByte[a + 1][b + 1]

\* Uint8.__and__
And8(a, b) ==
    16 * AndNibble[(a \div 16) + 1][(b \div 16) + 1]
    + AndNibble[(a % 16) + 1][(b % 16) + 1]

XorBytes(x, y) ==
    ByValue(LAMBDA a : ByValue(LAMBDA b : List([i \in 1..Len(a) |-> Xor8(a[i], b[i])]), y), x)

----------------------------------------------------------------------------
(* BaseUint: Uint32 / Uint64 as big-endian strings of 16-bit limbs          *)

Xor16(a, b) == 256 * Xor8(a \div 256, b \div 256) + Xor8(a % 256, b % 256)

And16(a, b) == 256 * And8(a \div 256, b \div 256) + And8(a % 256, b % 256)

\* a | b = (a ^ b) + (a & b): the two summands have no bit in common
Or16(a, b) == Xor16(a, b) + And16(a, b)

\* a Python int below 2^31 as a Uint64: the value setter's "& max_value()"
Uint64(n) == << 0, 0, n \div 65536, n % 65536 >>

\* Uint32(counter & mask) and Uint32((counter >> 32) & mask) of a 64-bit counter
Low32(counter) == << counter[3], counter[4] >>

High32(counter) == << counter[1], counter[2] >>

\* the value of y in the width of x: cls(result_val) masks with max_value()
Widen(x, y) ==
    IF Len(y) = Len(x) THEN y
    ELSE IF Len(x) = 4 THEN << 0, 0, y[1], y[2] >>
    ELSE << y[3], y[4] >>

\* BaseUint.__add__: type(self)(self.value + other.value), wrapping at 2^bits
WAdd(x, yy) ==
    LET y == Widen(x, yy)
    IN  IF Len(x) = 2
        THEN LET s2 == x[2] + y[2]
                 s1 == x[1] + y[1] + (s2 \div 65536)
             IN  << s1 % 65536, s2 % 65536 >>
        ELSE LET s4 == x[4] + y[4]
                 s3 == x[3] + y[3] + (s4 \div 65536)
                 s2 == x[2] + y[2] + (s3 \div 65536)
                 s1 == x[1] + y[1] + (s2 \div 65536)
             IN  << s1 % 65536, s2 % 65536, s3 % 65536, s4 % 65536 >>

\* BaseUint.__xor__
WXor(x, yy) ==
    LET y == Widen(x, yy)
    IN  IF Len(x) = 2
        THEN << Xor16(x[1], y[1]), Xor16(x[2], y[2]) >>
        ELSE << Xor16(x[1], y[1]), Xor16(x[2], y[2]),
                Xor16(x[3], y[3]), Xor16(x[4], y[4]) >>

\* BaseUint.__and__
WAnd(x, yy) ==
    LET y == Widen(x, yy)
    IN  IF Len(x) = 2
        THEN << And16(x[1], y[1]), And16(x[2], y[2]) >>
        ELSE << And16(x[1], y[1]), And16(x[2], y[2]),
                And16(x[3], y[3]), And16(x[4], y[4]) >>

\* BaseUint.__or__
WOr(x, yy) ==
    LET y == Widen(x, yy)
    IN  IF Len(x) = 2
        THEN << Or16(x[1], y[1]), Or16(x[2], y[2]) >>
        ELSE << Or16(x[1], y[1]), Or16(x[2], y[2]),
                Or16(x[3], y[3]), Or16(x[4], y[4]) >>

Pow2 == << 1, 2, 4, 8, 16, 32, 64, 128, 256, 512, 1024, 2048, 4096, 8192,
           16384, 32768, 65536 >>

\* limb i (1-based) of x rotated right by q whole limbs and r further bits
RotLimb(x, i, q, r) ==
    LET L    == Len(x)
        this == x[((i - 1 - q + L) % L) + 1]
        prev == x[((i - 2 - q + L + L) % L) + 1]
    IN  (this \div Pow2[r + 1]) + (prev % Pow2[r + 1]) * Pow2[17 - r]

\* BaseUint.rotr: ((v >> d) | (v << (bits - d))) & max_value, d = n % bits
rotr(x, n) ==
    LET d == n % (16 * Len(x))
        q == d \div 16
        r == d % 16
    IN  IF Len(x) = 2
        THEN << RotLimb(x, 1, q, r), RotLimb(x, 2, q, r) >>
        ELSE << RotLimb(x, 1, q, r), RotLimb(x, 2, q, r),
                RotLimb(x, 3, q, r), RotLimb(x, 4, q, r) >>

\* BaseUint.to_bytes(byteorder="big")
to_bytes(w) ==
    IF Len(w) = 2
    THEN << w[1] \div 256, w[1] % 256, w[2] \div 256, w[2] % 256 >>
    ELSE << w[1] \div 256, w[1] % 256, w[2] \div 256, w[2] % 256,
            w[3] \div 256, w[3] % 256, w[4] \div 256, w[4] % 256 >>

\* int.from_bytes(chunk, byteorder="big") as a Uint32 / Uint64
from_bytes(chunk) ==
    IF Len(chunk) = 4
    THEN << 256 * chunk[1] + chunk[2], 256 * chunk[3] + chunk[4] >>
    ELSE << 256 * chunk[1] + chunk[2], 256 * chunk[3] + chunk[4],
            256 * chunk[5] + chunk[6], 256 * chunk[7] + chunk[8] >>

\* create_uint(0)
ZeroWord(t) == IF t = 256 THEN << 0, 0 >> ELSE << 0, 0, 0, 0 >>

----------------------------------------------------------------------------
(* KDFDomain and the tier parameters of Blake32 / Blake64                   *)

KDFDomain == {"CTX", "MSG", "HDR", "CHK"}

\* Blake32.bit_length / Blake64.bit_length
bit_length(t) == IF t = 256 THEN 32 ELSE 64

\* Blake32.rots / Blake64.rots
rots(t) == IF t = 256 THEN << 16, 12, 8, 7 >> ELSE << 32, 24, 16, 63 >>

\* Blake32.ivs / Blake64.ivs
ivs(t) ==
    IF t = 256
    THEN << <<27145, 58983>>,                       \* 6A09E667
            <<47975, 44677>>,                       \* BB67AE85
            <<15470, 62322>>,                       \* 3C6EF372
            <<42319, 62778>>,                       \* A54FF53A
            <<20750, 21119>>,                       \* 510E527F
            <<39685, 26764>>,                       \* 9B05688C
            <<8067, 55723>>,                        \* 1F83D9AB
            <<23520, 52505>> >>                     \* 5BE0CD19
    ELSE << <<27145, 58983, 62396, 51464>>,         \* 6A09E667F3BCC908
            <<47975, 44677, 33994, 42811>>,         \* BB67AE8584CAA73B
            <<15470, 62322, 65172, 63531>>,         \* 3C6EF372FE94F82B
            <<42319, 62778, 24349, 14065>>,         \* A54FF53A5F1D36F1
            <<20750, 21119, 44518, 33489>>,         \* 510E527FADE682D1
            <<39685, 26764, 11070, 27679>>,         \* 9B05688C2B3E6C1F
            <<8067, 55723, 64321, 48491>>,          \* 1F83D9ABFB41BD6B
            <<23520, 52505, 4990, 8569>> >>         \* 5BE0CD19137E2179

\* Blake32.domain_mask / Blake64.domain_mask
domain_mask(t, domain) ==
    IF t = 256
    THEN CASE domain = "CTX" -> <<0, 0>>                    \* 00000000
           [] domain = "MSG" -> <<240, 15>>                 \* 00F0000F
           [] domain = "HDR" -> <<3840, 3840>>              \* 0F000F00
           [] domain = "CHK" -> <<61455, 0>>                \* F00F0000
    ELSE CASE domain = "CTX" -> <<0, 0, 0, 0>>              \* 0000000000000000
           [] domain = "MSG" -> <<0, 65280, 0, 255>>        \* 0000FF00000000FF
           [] domain = "HDR" -> <<255, 0, 255, 0>>          \* 00FF000000FF0000
           [] domain = "CHK" -> <<65280, 255, 0, 0>>        \* FF0000FF00000000

----------------------------------------------------------------------------
(* BaseBlake                                                                *)

\* BaseBlake.bytes_to_uint_vector: zero-pad on the right, truncate, big-endian
bytes_to_uint_vector(t, data, vec_len) ==
    LET chunk_size == bit_length(t) \div 8
        pad_size   == chunk_size * vec_len
        sized_data == Slice(data \o Zeros(pad_size), 0, pad_size)
    IN  List([k \in 1..vec_len |->
                from_bytes(Slice(sized_data, (k - 1) * chunk_size, k * chunk_size))])

\* BaseBlake.compute_key_nonce_composite
compute_key_nonce_composite(t, kw, nw) ==
    LET hl    == bit_length(t) \div 32          \* limbs in half a word
        ones  == List([i \in 1..hl |-> 65535])
        mask1 == Zeros(hl) \o ones             \* selects the lower half of the bits
        mask2 == ones \o Zeros(hl)             \* selects the upper half of the bits
        a(i)  == WOr(WAnd(At(kw, i), mask2), WAnd(At(nw, i), mask1))
        b(i)  == WOr(WAnd(At(nw, i), mask2), WAnd(At(kw, i), mask1))
    IN  List([j \in 1..16 |->
                IF j % 2 = 1 THEN a((j - 1) \div 2) ELSE b((j - 1) \div 2)])

\* BaseBlake.__init__
BaseBlake(t, k, n, c) ==
    LET kw == bytes_to_uint_vector(t, k, 8)
        nw == bytes_to_uint_vector(t, n, 8)
    IN  [ key     |-> kw,
          nonce   |-> nw,
          context |-> bytes_to_uint_vector(t, c, 16),
          state   |-> List([i \in 1..16 |-> ZeroWord(t)]),
          knc     |-> compute_key_nonce_composite(t, kw, nw) ]

\* faulty variant of init_state_vector: the high 32 bits of the counter go
\* into words 4..7 and the low 32 bits into words 8..11
init_state_vector_swapped_halves(t, self, entropy, counter, domain) ==
    LET iv       == ivs(t)
        ctr_low  == Low32(counter)
        ctr_high == High32(counter)
        d_mask   == domain_mask(t, domain)
        st0      == Slice(iv, 0, 4) \o entropy \o Slice(iv, 4, 8)
        st1      == List([i \in 1..16 |->
                        LET j == i - 1 IN
                        IF j \in 4..7 THEN WAdd(st0[i], ctr_high)
                        ELSE IF j \in 8..11 THEN WAdd(st0[i], ctr_low)
                        ELSE IF j \in 12..15 THEN WXor(st0[i], d_mask)
                        ELSE st0[i]])
    IN  [self EXCEPT !.state = st1]

\* BaseBlake.init_state_vector; counter is the 64-bit counter as a Uint64
init_state_vector(t, self, entropy, counter, domain) ==
    LET iv       == ivs(t)
        ctr_low  == Low32(counter)
        ctr_high == High32(counter)
        d_mask   == domain_mask(t, domain)
        st0      == Slice(iv, 0, 4) \o entropy \o Slice(iv, 4, 8)
        st1      == List([i \in 1..16 |->
                        LET j == i - 1 IN
                        IF j \in 4..7 THEN WAdd(st0[i], ctr_low)
                        ELSE IF j \in 8..11 THEN WAdd(st0[i], ctr_high)
                        ELSE IF j \in 12..15 THEN WXor(st0[i], d_mask)
                        ELSE st0[i]])
    IN  [self EXCEPT !.state = st1]

\* g_mix: "vec[i] = vec[i] + vec[j] + m"
g_add_msg(vec, i, j, m) == [vec EXCEPT ![i + 1] = WAdd(WAdd(vec[i + 1], vec[j + 1]), m)]

\* g_mix: "vec[i] = vec[i] + vec[j]"
g_add(vec, i, j) == [vec EXCEPT ![i + 1] = WAdd(vec[i + 1], vec[j + 1])]

\* g_mix: "vec[i] = (vec[i] ^ vec[j]).rotr(r)"
g_xor_rotr(vec, i, j, r) == [vec EXCEPT ![i + 1] = rotr(WXor(vec[i + 1], vec[j + 1]), r)]

\* one mixing of g_mix: four statements, the first one innermost
g_mixing(vec, a, b, c, d, m, r1, r2) ==
    CASE vec = vec ->
        g_xor_rotr(g_add(g_xor_rotr(g_add_msg(vec, a, b, m), d, a, r1), c, d), b, c, r2)

\* BaseBlake.g_mix on the state vector vec: the first mixing, then the second
g_mix(t, vec, a, b, c, d, mx, my) ==
    g_mixing(g_mixing(vec, a, b, c, d, mx, rots(t)[1], rots(t)[2]),
             a, b, c, d, my, rots(t)[3], rots(t)[4])

\* the indices of the eight g_mix calls of mix_into_state: columns, then diagonals
mix_schedule ==
    << << 0, 4, 8, 12 >>, << 1, 5, 9, 13 >>, << 2, 6, 10, 14 >>, << 3, 7, 11, 15 >>,
       << 0, 5, 10, 15 >>, << 1, 6, 11, 12 >>, << 2, 7, 8, 13 >>, << 3, 4, 9, 14 >> >>

\* the k-th (0-based) g_mix call of mix_into_state: it mixes m[2k] and m[2k + 1]
mix_call(t, vec, m, k) ==
    g_mix(t, vec, mix_schedule[k + 1][1], mix_schedule[k + 1][2],
          mix_schedule[k + 1][3], mix_schedule[k + 1][4], At(m, 2 * k), At(m, 2 * k + 1))

\* the g_mix calls lo .. hi - 1 of mix_into_state in their order: the first half
\* of them, then the others
RECURSIVE mix_calls(_, _, _, _, _)
mix_calls(t, vec, m, lo, hi) ==
    CASE hi <= lo -> vec
      [] hi = lo + 1 /\ vec = vec -> mix_call(t, vec, m, lo)
      [] hi > lo + 1 /\ vec = vec ->
            mix_calls(t, mix_calls(t, vec, m, lo, (lo + hi) \div 2),
                      m, (lo + hi) \div 2, hi)

\* BaseBlake.mix_into_state
mix_into_state(t, self, m) ==
    [self EXCEPT !.state = mix_calls(t, self.state, m, 0, Len(mix_schedule))]

\* BaseBlake.permute
permute(m) ==
    LET schedule == << 2, 6, 3, 10, 7, 0, 4, 13, 1, 11, 12, 5, 9, 14, 15, 8 >>
    IN  List([i \in 1..16 |-> At(m, schedule[i])])

\* "self.context = self.permute(self.context)"
permute_context(self) == [self EXCEPT !.context = permute(self.context)]

\* one turn of the loop of digest_context
digest_round(t, self) == permute_context(mix_into_state(t, self, self.context))

\* n turns of the loop of digest_context: the first n \div 2 of them, then the others
RECURSIVE digest_rounds(_, _, _)
digest_rounds(t, self, n) ==
    CASE n <= 0 -> self
      [] n = 1 /\ self = self -> digest_round(t, self)
      [] n > 1 /\ self = self ->
            digest_rounds(t, digest_rounds(t, self, n \div 2), n - n \div 2)

\* "self.mix_into_state(self.context)  # 10th round"
digest_last_round(t, self) == CASE self = self -> mix_into_state(t, self, self.context)

\* BaseBlake.digest_context
digest_context(t, self) ==
    digest_last_round(t,
        digest_rounds(t, init_state_vector(t, self, self.key, Uint64(0), "CTX"), 9))
----------------------------------------------------------------------------
(* Blake32 / Blake64 with WithDeriveKeys32 / WithDeriveKeys64               *)

\* copy.deepcopy: a new object with the same value
deepcopy(obj) == obj

\* Blake32.add_round_key after "keygen.mix_into_state(keygen.knc)"
Blake32_extract(kg, round_keys) ==
    [ keygen |-> kg,
      keys   |-> << Append(round_keys[1],
                           Flatten(List([i \in 1..4 |-> to_bytes(At(kg.state, 3 + i))]))) >> ]

\* Blake32.add_round_key(kg, round_keys): both arguments are mutated
Blake32_add_round_key(t, kg, round_keys) ==
    Blake32_extract(mix_into_state(t, kg, kg.knc), round_keys)

\* Blake64.add_round_key after "keygen.mix_into_state(keygen.knc)"
Blake64_extract(kg, round_keys) ==
    [ keygen |-> kg,
      keys   |-> << Append(round_keys[1],
                           Flatten(List([i \in 1..2 |-> to_bytes(At(kg.state, 3 + i))]))),
                    Append(round_keys[2],
                           Flatten(List([i \in 1..2 |-> to_bytes(At(kg.state, 5 + i))]))) >> ]

\* Blake64.add_round_key(kg, b1_round_keys, b2_round_keys)
Blake64_add_round_key(t, kg, round_keys) ==
    Blake64_extract(mix_into_state(t, kg, kg.knc), round_keys)

\* self.add_round_key as dispatched by the class of the kg
keygen_add_round_key(t, kg, round_keys) ==
    IF t = 256 THEN Blake32_add_round_key(t, kg, round_keys)
    ELSE Blake64_add_round_key(t, kg, round_keys)

\* "keygen.knc = keygen.permute(keygen.knc)"
permute_knc(step) == [step EXCEPT !.keygen.knc = permute(step.keygen.knc)]

\* one turn of the loop of derive_keys on the keygen and the round keys of st
derive_turn(t, st) == permute_knc(keygen_add_round_key(t, st.keygen, st.keys))

\* "for _ in range(key_count - 1): add_round_key; knc = permute(knc)": n turns,
\* the first n \div 2 of them, then the others
RECURSIVE derive_loop(_, _, _)
derive_loop(t, st, n) ==
    CASE n <= 0 -> st
      [] n = 1 /\ st = st -> derive_turn(t, st)
      [] n > 1 /\ st = st -> derive_loop(t, derive_loop(t, st, n \div 2), n - n \div 2)

\* "self.add_round_key(keygen, round_keys)  # last round"
derive_last_round(t, st) == CASE st = st -> keygen_add_round_key(t, st.keygen, st.keys)

\* faulty variant of derive_from_entropy: the loop runs key_count times
derive_from_entropy_extra_turn(t, kg, entropy, key_count, counter, domain) ==
    derive_last_round(t,
        derive_loop(t,
                    [ keygen |-> init_state_vector(t, kg, entropy, counter, domain),
                      keys   |-> IF t = 256 THEN << << >> >> ELSE << << >>, << >> >> ],
                    key_count))

\* the body of "for entropy in [entropy_1, entropy_2]" of derive_keys, run on the
\* object `kg`; returns the object after the body and the round keys
derive_from_entropy(t, kg, entropy, key_count, counter, domain) ==
    derive_last_round(t,
        derive_loop(t,
                    [ keygen |-> init_state_vector(t, kg, entropy, counter, domain),
                      keys   |-> IF t = 256 THEN << << >> >> ELSE << << >>, << >> >> ],
                    key_count - 1))

\* faulty variant of derive_keys: the second entropy pass runs on self, not on a copy
derive_keys_in_place(t, self, key_count, counter, domain) ==
    LET ent_src   == deepcopy(self)
        entropy_1 == Slice(ent_src.state, 0, 4) \o Slice(ent_src.state, 8, 12)
        entropy_2 == Slice(ent_src.state, 4, 8) \o Slice(ent_src.state, 12, 16)
        g1 == derive_from_entropy(t, deepcopy(self), entropy_1, key_count,
                                  counter, domain)
        g2 == derive_from_entropy(t, self, entropy_2, key_count, counter, domain)
    IN  [ keys |-> g1.keys \o g2.keys, self |-> g2.keygen ]

\* WithDeriveKeys32.derive_keys / WithDeriveKeys64.derive_keys.
\* Returns the round-key lists and the object self as the call leaves it.
derive_keys(t, self, key_count, counter, domain) ==
    LET ent_src   == deepcopy(self)
        entropy_1 == Slice(ent_src.state, 0, 4) \o Slice(ent_src.state, 8, 12)
        entropy_2 == Slice(ent_src.state, 4, 8) \o Slice(ent_src.state, 12, 16)
        g1 == derive_from_entropy(t, deepcopy(self), entropy_1, key_count,
                                  counter, domain)
        g2 == derive_from_entropy(t, deepcopy(self), entropy_2, key_count,
                                  counter, domain)
    IN  [ keys |-> g1.keys \o g2.keys, self |-> self ]

----------------------------------------------------------------------------
(* SBox (src.aes_block.sbox): the standard AES forward and inverse tables   *)

SBoxENC ==
    << 99, 124, 119, 123, 242, 107, 111, 197,  48,   1, 103,  43, 254, 215, 171, 118,
       202, 130, 201, 125, 250,  89,  71, 240, 173, 212, 162, 175, 156, 164, 114, 192,
       183, 253, 147,  38,  54,  63, 247, 204,  52, 165, 229, 241, 113, 216,  49,  21,
         4, 199,  35, 195,  24, 150,   5, 154,   7,  18, 128, 226, 235,  39, 178, 117,
         9, 131,  44,  26,  27, 110,  90, 160,  82,  59, 214, 179,  41, 227,  47, 132,
        83, 209,   0, 237,  32, 252, 177,  91, 106, 203, 190,  57,  74,  76,  88, 207,
       208, 239, 170, 251,  67,  77,  51, 133,  69, 249,   2, 127,  80,  60, 159, 168,
        81, 163,  64, 143, 146, 157,  56, 245, 188, 182, 218,  33,  16, 255, 243, 210,
       205,  12,  19, 236,  95, 151,  68,  23, 196, 167, 126,  61, 100,  93,  25, 115,
        96, 129,  79, 220,  34,  42, 144, 136,  70, 238, 184,  20, 222,  94,  11, 219,
       224,  50,  58,  10,  73,   6,  36,  92, 194, 211, 172,  98, 145, 149, 228, 121,
       231, 200,  55, 109, 141, 213,  78, 169, 108,  86, 244, 234, 101, 122, 174,   8,
       186, 120,  37,  46,  28, 166, 180, 198, 232, 221, 116,  31,  75, 189, 139, 138,
       112,  62, 181, 102,  72,   3, 246,  14,  97,  53,  87, 185, 134, 193,  29, 158,
       225, 248, 152,  17, 105, 217, 142, 148, 155,  30, 135, 233, 206,  85,  40, 223,
       140, 161, 137,  13, 191, 230,  66, 104,  65, 153,  45,  15, 176,  84, 187,  22 >>

SBoxDEC ==
    << 82,   9, 106, 213,  48,  54, 165,  56, 191,  64, 163, 158, 129, 243, 215, 251,
       124, 227,  57, 130, 155,  47, 255, 135,  52, 142,  67,  68, 196, 222, 233, 203,
        84, 123, 148,  50, 166, 194,  35,  61, 238,  76, 149,  11,  66, 250, 195,  78,
         8,  46, 161, 102,  40, 217,  36, 178, 118,  91, 162,  73, 109, 139, 209,  37,
       114, 248, 246, 100, 134, 104, 152,  22, 212, 164,  92, 204,  93, 101, 182, 146,
       108, 112,  72,  80, 253, 237, 185, 218,  94,  21,  70,  87, 167, 141, 157, 132,
       144, 216, 171,   0, 140, 188, 211,  10, 247, 228,  88,   5, 184, 179,  69,   6,
       208,  44,  30, 143, 202,  63,  15,   2, 193, 175, 189,   3,   1,  19, 138, 107,
        58, 145,  17,  65,  79, 103, 220, 234, 151, 242, 207, 206, 240, 180, 230, 115,
       150, 172, 116,  34, 231, 173,  53, 133, 226, 249,  55, 232,  28, 117, 223, 110,
        71, 241,  26, 113,  29,  41, 197, 137, 111, 183,  98,  14, 170,  24, 190,  27,
       252,  86,  62,  75, 198, 210, 121,  32, 154, 219, 192, 254, 120, 205,  90, 244,
        31, 221, 168,  51, 136,   7, 199,  49, 177,  18,  16,  89,  39, 128, 236,  95,
        96,  81, 127, 169,  25, 181,  74,  13,  45, 229, 122, 159, 147, 201, 156, 239,
       160, 224,  59,  77, 174,  42, 245, 176, 200, 235, 187,  60, 131,  83, 153,  97,
        23,  43,   4, 126, 186, 119, 214,  38, 225, 105,  20,  99,  85,  33,  12, 125 >>

----------------------------------------------------------------------------
(* BaseAESBlock / AESBlock                                                  *)
(* An AES block object is a record: state (16 Uint8), round_keys, n_rounds, *)
(* and the position of its generator: pos = "new" before the first next(),  *)
(* "loop" when suspended at "yield True" with loop variable i, "end" when   *)
(* suspended at the final "yield False", "exhausted" after StopIteration.   *)

\* BaseAESBlock.__init__ (data of length 16)
AESBlock(data, round_keys) ==
    [ state      |-> data,
      round_keys |-> round_keys,
      n_rounds   |-> Len(round_keys) - 1,
      pos        |-> "new",
      i          |-> 0 ]

\* BaseAESBlock.add_round_key
add_round_key(s, round_keys, index) == XorBytes(s, At(round_keys, index))

\* AESBlock.sub_bytes
sub_bytes(s) == ByValue(LAMBDA v : List([k \in 1..16 |-> SBoxENC[v[k] + 1]]), s)

\* AESBlock.inv_sub_bytes
inv_sub_bytes(s) == ByValue(LAMBDA v : List([k \in 1..16 |-> SBoxDEC[v[k] + 1]]), s)

\* BaseAESBlock.shift_rows: new s[j] = old s[src[j]]
shift_rows(s) ==
    LET src == << 0, 5, 10, 15, 4, 9, 14, 3, 8, 13, 2, 7, 12, 1, 6, 11 >>
    IN  ByValue(LAMBDA v : List([k \in 1..16 |-> At(v, src[k])]), s)

\* BaseAESBlock.inv_shift_rows
inv_shift_rows(s) ==
    LET src == << 0, 13, 10, 7, 4, 1, 14, 11, 8, 5, 2, 15, 12, 9, 6, 3 >>
    IN  ByValue(LAMBDA v : List([k \in 1..16 |-> At(v, src[k])]), s)

\* BaseAESBlock.xtime
xtime(a) ==
    LET x == (2 * a) % 256                            \* (a << 1) & 0xFF
        y == And8((256 - (a \div 128)) % 256, 27)     \* -(a >> 7) & 0x1B
    IN  Xor8(x, y)

\* BaseAESBlock.mix_single_column
mix_single_column(s, a, b, c, d) ==
    ByValue(LAMBDA v :
        LET x  == Xor8(Xor8(Xor8(At(v, a), At(v, b)), At(v, c)), At(v, d))
            y  == At(v, a)
            na == Xor8(At(v, a), Xor8(x, xtime(Xor8(At(v, a), At(v, b)))))
            nb == Xor8(At(v, b), Xor8(x, xtime(Xor8(At(v, b), At(v, c)))))
            nc == Xor8(At(v, c), Xor8(x, xtime(Xor8(At(v, c), At(v, d)))))
            nd == Xor8(At(v, d), Xor8(x, xtime(Xor8(At(v, d), y))))
        IN  Put(Put(Put(Put(v, a, na), b, nb), c, nc), d, nd), s)

\* BaseAESBlock.mix_columns
mix_columns(s) ==
    mix_single_column(
        mix_single_column(
            mix_single_column(
                mix_single_column(s, 0, 1, 2, 3), 4, 5, 6, 7), 8, 9, 10, 11),
        12, 13, 14, 15)

\* one turn of the loop of inv_mix_columns, for the column starting at i
inv_mix_single_column(s, i) ==
    ByValue(LAMBDA v :
        LET m == Xor8(At(v, i), At(v, i + 2))
            n == Xor8(At(v, i + 1), At(v, i + 3))
            x == xtime(xtime(m))
            y == xtime(xtime(n))
        IN  Put(Put(Put(Put(v, i, Xor8(At(v, i), x)),
                        i + 1, Xor8(At(v, i + 1), y)),
                    i + 2, Xor8(At(v, i + 2), x)),
                i + 3, Xor8(At(v, i + 3), y)), s)

\* BaseAESBlock.inv_mix_columns
inv_mix_columns(s) ==
    mix_columns(
        inv_mix_single_column(
            inv_mix_single_column(
                inv_mix_single_column(
                    inv_mix_single_column(s, 0), 4), 8), 12))

\* one intermediate round of encrypt: the loop body after "yield True"
enc_round(ab, i) ==
    add_round_key(mix_columns(shift_rows(sub_bytes(ab.state))), ab.round_keys, i)

\* faulty variant of enc_final: the last round mixes the columns too
enc_final_with_mix(s, ab) ==
    add_round_key(mix_columns(shift_rows(sub_bytes(s))), ab.round_keys, ab.n_rounds)

\* the final round of encrypt, before "yield False"
enc_final(s, ab) ==
    add_round_key(shift_rows(sub_bytes(s)), ab.round_keys, ab.n_rounds)

\* the steps a lane runs, as logged per lane: << method, round-key index in scope >>
RoundSteps(i) ==
    << << "sub_bytes", i >>, << "shift_rows", i >>, << "mix_columns", i >>,
       << "add_round_key", i >> >>

FinalSteps(n) ==
    << << "sub_bytes", n >>, << "shift_rows", n >>, << "add_round_key", n >> >>

InvFirstSteps(n) ==
    << << "add_round_key", n >>, << "inv_shift_rows", n >>, << "inv_sub_bytes", n >> >>

InvRoundSteps(i) ==
    << << "add_round_key", i >>, << "inv_mix_columns", i >>,
       << "inv_shift_rows", i >>, << "inv_sub_bytes", i >> >>

\* faulty variant of encrypt_next: the generator yields after each of the
\* intermediate rounds instead of before it
encrypt_next_late_yield(ab) ==
    CASE ab.pos = "new" ->
            LET s0 == add_round_key(ab.state, ab.round_keys, 0)
                a1 == [ab EXCEPT !.state = s0]
            IN  IF 1 < ab.n_rounds
                THEN [ ab    |-> [ab EXCEPT !.state = enc_round(a1, 1),
                                            !.pos = "loop", !.i = 2],
                       ret   |-> TRUE,
                       steps |-> << << "add_round_key", 0 >> >> \o RoundSteps(1) ]
                ELSE [ ab    |-> [ab EXCEPT !.state = enc_final(s0, ab), !.pos = "end"],
                       ret   |-> FALSE,
                       steps |-> << << "add_round_key", 0 >> >> \o FinalSteps(ab.n_rounds) ]
      [] ab.pos = "loop" ->
            IF ab.i < ab.n_rounds
            THEN [ ab    |-> [ab EXCEPT !.state = enc_round(ab, ab.i), !.i = ab.i + 1],
                   ret   |-> TRUE,
                   steps |-> RoundSteps(ab.i) ]
            ELSE [ ab    |-> [ab EXCEPT !.state = enc_final(ab.state, ab), !.pos = "end"],
                   ret   |-> FALSE,
                   steps |-> FinalSteps(ab.n_rounds) ]
      [] OTHER ->
            [ ab |-> [ab EXCEPT !.pos = "exhausted"], ret |-> FALSE, steps |-> << >> ]

\* next(gen, False) on the generator of BaseAESBlock.encrypt:
\* the block afterwards, the value handed to the driver, the steps that ran
encrypt_next(ab) ==
    CASE ab.pos = "new" ->
            LET s0 == add_round_key(ab.state, ab.round_keys, 0)
            IN  IF 1 < ab.n_rounds               \* range(1, n_rounds) is not empty
                THEN [ ab    |-> [ab EXCEPT !.state = s0, !.pos = "loop", !.i = 1],
                       ret   |-> TRUE,
                       steps |-> << << "add_round_key", 0 >> >> ]
                ELSE [ ab    |-> [ab EXCEPT !.state = enc_final(s0, ab), !.pos = "end"],
                       ret   |-> FALSE,
                       steps |-> << << "add_round_key", 0 >> >> \o FinalSteps(ab.n_rounds) ]
      [] ab.pos = "loop" ->
            LET s1 == enc_round(ab, ab.i)
            IN  IF ab.i + 1 < ab.n_rounds
                THEN [ ab    |-> [ab EXCEPT !.state = s1, !.i = ab.i + 1],
                       ret   |-> TRUE,
                       steps |-> RoundSteps(ab.i) ]
                ELSE [ ab    |-> [ab EXCEPT !.state = enc_final(s1, ab), !.pos = "end"],
                       ret   |-> FALSE,
                       steps |-> RoundSteps(ab.i) \o FinalSteps(ab.n_rounds) ]
      [] OTHER ->                                \* StopIteration: the default, False
            [ ab |-> [ab EXCEPT !.pos = "exhausted"], ret |-> FALSE, steps |-> << >> ]

\* faulty variant of dec_round: the columns are unmixed before the round key
\* is added
dec_round_mix_first(s, ab, i) ==
    inv_sub_bytes(inv_shift_rows(add_round_key(inv_mix_columns(s), ab.round_keys, i)))

\* one turn of the loop of decrypt, up to its "yield True"
dec_round(s, ab, i) ==
    inv_sub_bytes(inv_shift_rows(inv_mix_columns(add_round_key(s, ab.round_keys, i))))

\* next(gen, False) on the generator of BaseAESBlock.decrypt
decrypt_next(ab) ==
    CASE ab.pos = "new" ->
            LET n  == ab.n_rounds
                s0 == inv_sub_bytes(inv_shift_rows(add_round_key(ab.state, ab.round_keys, n)))
                st == InvFirstSteps(n)
            IN  IF n - 1 > 0                     \* range(n_rounds - 1, 0, -1) is not empty
                THEN [ ab    |-> [ab EXCEPT !.state = dec_round(s0, ab, n - 1),
                                            !.pos = "loop", !.i = n - 1],
                       ret   |-> TRUE,
                       steps |-> st \o InvRoundSteps(n - 1) ]
                ELSE [ ab    |-> [ab EXCEPT !.state = add_round_key(s0, ab.round_keys, 0),
                                            !.pos = "end"],
                       ret   |-> FALSE,
                       steps |-> st \o << << "add_round_key", 0 >> >> ]
      [] ab.pos = "loop" ->
            IF ab.i - 1 > 0
            THEN [ ab    |-> [ab EXCEPT !.state = dec_round(ab.state, ab, ab.i - 1),
                                        !.i = ab.i - 1],
                   ret   |-> TRUE,
                   steps |-> InvRoundSteps(ab.i - 1) ]
            ELSE [ ab    |-> [ab EXCEPT !.state = add_round_key(ab.state, ab.round_keys, 0),
                                        !.pos = "end"],
                   ret   |-> FALSE,
                   steps |-> << << "add_round_key", 0 >> >> ]
      [] OTHER ->
            [ ab |-> [ab EXCEPT !.pos = "exhausted"], ret |-> FALSE, steps |-> << >> ]

----------------------------------------------------------------------------
(* BaseAESBlake with AESBlake256 / AESBlake512: pure helpers                *)

\* self.aes_block_bytes
aes_block_bytes == 16

\* self.key_count
key_count == 11

\* self.aes_blocks_count = keygen.bit_length() // 16
aes_blocks_count(t) == bit_length(t) \div 16

\* self.aes_total_bytes
aes_total_bytes(t) == aes_blocks_count(t) * aes_block_bytes

\* faulty variant of ex_cols_pattern: the forward pattern also when inverse
ex_cols_pattern_forward(t, inverse) ==
    IF t = 256
    THEN << <<0, 1, 0, 1>>, <<1, 0, 1, 0>> >>
    ELSE << <<0, 1, 2, 3>>, <<1, 2, 3, 0>>, <<2, 3, 0, 1>>, <<3, 0, 1, 2>> >>

\* AESBlake256.ex_cols_pattern / AESBlake512.ex_cols_pattern
ex_cols_pattern(t, inverse) ==
    IF t = 256
    THEN IF inverse THEN << <<0, 1, 0, 1>>, <<1, 0, 1, 0>> >>
                    ELSE << <<0, 1, 0, 1>>, <<1, 0, 1, 0>> >>
    ELSE IF inverse
         THEN << <<0, 3, 2, 1>>, <<1, 0, 3, 2>>, <<2, 1, 0, 3>>, <<3, 2, 1, 0>> >>
         ELSE << <<0, 1, 2, 3>>, <<1, 2, 3, 0>>, <<2, 3, 0, 1>>, <<3, 0, 1, 2>> >>

\* faulty variant of exchange_columns: every lane takes its first column
\* from lane 0
exchange_columns_first_of_lane_0(t, aes_blocks, inverse) ==
    LET clones  == List([b \in 1..Len(aes_blocks) |-> deepcopy(aes_blocks[b])])
        pattern == ex_cols_pattern(t, inverse)
    IN  List([b \in 1..Len(aes_blocks) |->
            IF b <= Len(pattern)
            THEN LET indices == pattern[b]
                 IN  [aes_blocks[b] EXCEPT !.state =
                            Slice(At(clones, 0).state, 0, 4)
                         \o Slice(At(clones, indices[2]).state, 4, 8)
                         \o Slice(At(clones, indices[3]).state, 8, 12)
                         \o Slice(At(clones, indices[4]).state, 12, 16)]
            ELSE aes_blocks[b]])

\* BaseAESBlake.exchange_columns: the list of blocks after the call
exchange_columns(t, aes_blocks, inverse) ==
    LET clones  == List([b \in 1..Len(aes_blocks) |-> deepcopy(aes_blocks[b])])
        pattern == ex_cols_pattern(t, inverse)
    IN  List([b \in 1..Len(aes_blocks) |->
            IF b <= Len(pattern)
            THEN LET indices == pattern[b]
                 IN  [aes_blocks[b] EXCEPT !.state =
                            Slice(At(clones, indices[1]).state, 0, 4)
                         \o Slice(At(clones, indices[2]).state, 4, 8)
                         \o Slice(At(clones, indices[3]).state, 8, 12)
                         \o Slice(At(clones, indices[4]).state, 12, 16)]
            ELSE aes_blocks[b]])

\* BaseAESBlake.split_bytes
split_bytes(data, chunk_size) ==
    List([k \in 1..((Len(data) + chunk_size - 1) \div chunk_size) |->
            Slice(data, (k - 1) * chunk_size, k * chunk_size)])

\* faulty variant of ValidLengths: only the text is checked
ValidLengths_text_only(t, text, header) ==
    Len(text) % aes_total_bytes(t) = 0

\* BaseAESBlake.validate_convert_inputs: FALSE stands for the raised ValueError
ValidLengths(t, text, header) ==
    /\ Len(text) % aes_total_bytes(t) = 0
    /\ Len(header) % aes_total_bytes(t) = 0

\* BaseAESBlake.group_by raises ValueError for these arguments
group_by_raises(data, size) ==
    \/ data = << >>
    \/ size <= 0
    \/ Len(data) % size # 0

\* BaseAESBlake.group_by, when it does not raise
group_by(data, size) ==
    List([k \in 1..(Len(data) \div size) |-> Slice(data, (k - 1) * size, k * size)])

\* CheckSum.create_many(count)
create_many(count) == List([k \in 1..count |-> Zeros(16)])

\* BaseCheckSum.xor_with applied pairwise: zip(checksums, datas)
xor_with_each(checksums, datas) ==
    List([k \in 1..Len(checksums) |->
            IF k <= Len(datas) THEN XorBytes(checksums[k], datas[k])
            ELSE checksums[k]])

\* "[self.aes_class()(chunk, k) for chunk, k in zip(chunks, keys)]"
zip_aes_blocks(chunks, keys) ==
    List([k \in 1..(IF Len(chunks) < Len(keys) THEN Len(chunks) ELSE Len(keys)) |->
            AESBlock(chunks[k], keys[k])])

\* create_aes_blocks once derive_keys has returned dk
blocks_of_keys(dk, chunks) ==
    CASE dk = dk -> [ blocks |-> zip_aes_blocks(chunks, dk.keys), keygen |-> dk.self ]

\* BaseAESBlake.create_aes_blocks: the blocks, and the keygen as derive_keys leaves it
create_aes_blocks(t, kg, counter, chunks, domain) ==
    blocks_of_keys(derive_keys(t, kg, key_count, Uint64(counter), domain), chunks)

\* faulty variant of final_checksum: the header checksums are left out
final_checksum_no_header(aes_blocks, header_checksums) ==
    Flatten(List([k \in 1..Len(aes_blocks) |-> aes_blocks[k].state]))

\* the tag bytes built at the end of compute_auth_tag
final_checksum(aes_blocks, header_checksums) ==
    LET n == IF Len(aes_blocks) < Len(header_checksums)
             THEN Len(aes_blocks) ELSE Len(header_checksums)
    IN  Flatten(List([k \in 1..n |->
            XorBytes(aes_blocks[k].state, header_checksums[k])]))

\* faulty variant of TagMismatch: only the lengths are compared
TagMismatch_length(new_auth_tag, auth_tag) == Len(new_auth_tag) # Len(auth_tag)

\* "new_auth_tag != auth_tag" in decrypt
TagMismatch(new_auth_tag, auth_tag) == new_auth_tag # auth_tag

States(aes_blocks) == List([k \in 1..Len(aes_blocks) |-> aes_blocks[k].state])

----------------------------------------------------------------------------
(* Bounds of the model and the inputs the callers draw from                 *)

MaxGroups == 2           \* a text that is not empty is this many groups long

MaxHeaderGroups == 2     \* a header that is not empty is this many groups long

MaxStale == 2            \* encrypt is entered with block_counter at most this

Tiers == { 256, 512 }

Pattern(seed, len) == List([i \in 1..len |-> (seed + 7 * i) % 256])

\* a length that is a whole number of AES blocks but not of groups
BadLength(t) == aes_total_bytes(t) + aes_block_bytes

TextLengths(t) == { 0, MaxGroups * aes_total_bytes(t), BadLength(t) }

HeaderLengths(t) == { 0, MaxHeaderGroups * aes_total_bytes(t), BadLength(t) }

\* bytes bytes_to_uint_vector consumes from key and nonce (8 words) and from
\* context (16 words)
KeyBytes(t) == 8 * (bit_length(t) \div 8)

ContextBytes(t) == 16 * (bit_length(t) \div 8)

\* the (key, nonce, context) a cipher is first built from: all empty as in the
\* tests, and each one byte longer than what the keygen consumes
CipherInputs(t) ==
    { [ key |-> << >>, nonce |-> << >>, context |-> << >> ],
      [ key     |-> Pattern(11, KeyBytes(t) + 1),
        nonce   |-> Pattern(60, KeyBytes(t) + 1),
        context |-> Pattern(110, ContextBytes(t) + 1) ] }

\* data with one bit flipped: bit `mask` of the byte at 0-based index `at`
FlipBit(data, at, mask) == Put(data, at, Xor8(At(data, at), mask))

\* the single-bit flips a tamperer tries: lowest bit of the first byte,
\* highest bit of the last byte
Flips(data) ==
    IF data = << >> THEN { }
    ELSE { FlipBit(data, 0, 1), FlipBit(data, Len(data) - 1, 128) }

----------------------------------------------------------------------------
(* State                                                                    *)

NoCall == [ op |-> "none", text |-> << >>, header |-> << >>, auth_tag |-> << >>,
            start_counter |-> 0 ]

NoLoc == [ groups |-> << >>, gi |-> 0, out |-> << >>, pchk |-> << >>,
           hchunks |-> << >>, hgroups |-> << >>, hi |-> 0, hchk |-> << >>,
           new_auth_tag |-> << >>, kdf |-> << >> ]

NoRnd == [ blocks |-> << >>, inverse |-> FALSE, domain |-> "CTX", g |-> 0,
           keep_running |-> FALSE, log |-> << >>, ret |-> "none" ]

NoResult == [ op |-> "none", status |-> "none", returned |-> FALSE,
              ciphertext |-> << >>, tag |-> << >>, plaintext |-> << >> ]

NoEnc == [ valid |-> FALSE, key |-> << >>, nonce |-> << >>, context |-> << >>,
           plaintext |-> << >>, header |-> << >>, ciphertext |-> << >>,
           tag |-> << >>, start_counter |-> 0 ]

\* BaseAESBlake.__init__
NewCipher(t, k, n, c) ==
    /\ key' = k
    /\ nonce' = n
    /\ context' = c
    /\ keygen' = digest_context(t, BaseBlake(t, k, n, c))
    /\ block_counter' = 0

Init ==
    /\ tier \in Tiers
    /\ \E ci \in CipherInputs(tier) :
          /\ key = ci.key
          /\ nonce = ci.nonce
          /\ context = ci.context
          /\ keygen = digest_context(tier, BaseBlake(tier, ci.key, ci.nonce, ci.context))
    /\ block_counter = 0
    /\ pc = "idle"
    /\ call = NoCall
    /\ loc = NoLoc
    /\ rnd = NoRnd
    /\ result = NoResult
    /\ enc = NoEnc

----------------------------------------------------------------------------
(* Calls made by the users of the cipher                                    *)

\* a call that ends by raising: nothing is returned
Raise(op, status) ==
    [ op |-> op, status |-> status, returned |-> FALSE,
      ciphertext |-> << >>, tag |-> << >>, plaintext |-> << >> ]

\* encrypt / decrypt up to the head of the loop over the text groups
BeginCall(op, text, header, auth_tag) ==
    /\ pc = "idle"
    /\ call' = [ op |-> op, text |-> text, header |-> header, auth_tag |-> auth_tag,
                 start_counter |-> block_counter ]
    /\ rnd' = NoRnd
    /\ IF ~ValidLengths(tier, text, header)
       THEN /\ result' = Raise(op, "InvalidInput")
            /\ loc' = NoLoc
            /\ pc' = "idle"
       ELSE LET text_chunks   == split_bytes(text, aes_block_bytes)
                header_chunks == split_bytes(header, aes_block_bytes)
                checksums     == create_many(aes_blocks_count(tier))
            IN  IF group_by_raises(text_chunks, aes_blocks_count(tier))
                THEN /\ result' = Raise(op, "EmptyData")
                     /\ loc' = NoLoc
                     /\ pc' = "idle"
                ELSE /\ result' = NoResult
                     /\ loc' = [ NoLoc EXCEPT
                                   !.groups  = group_by(text_chunks, aes_blocks_count(tier)),
                                   !.pchk    = checksums,
                                   !.hchunks = header_chunks ]
                     /\ pc' = "text"
    /\ UNCHANGED << tier, key, nonce, context, keygen, block_counter, enc >>

\* BaseAESBlake.encrypt is called by the sender, until a message has been
\* encrypted
EncryptCall ==
    /\ ~enc.valid
    /\ block_counter <= MaxStale
    /\ \E tl \in TextLengths(tier), hl \in HeaderLengths(tier) :
          BeginCall("encrypt", Pattern(3, tl), Pattern(200, hl), << >>)

\* the cipher in use was built from the (key, nonce, context) of the encryption,
\* which itself began on a cipher as constructed
Untampered ==
    /\ key = enc.key /\ nonce = enc.nonce /\ context = enc.context
    /\ enc.start_counter = 0

\* what a receiver may hand to decrypt after an encryption: the transmitted
\* values, or those with one of them changed
Sent == [ text |-> enc.ciphertext, header |-> enc.header, tag |-> enc.tag ]

DecryptInputs ==
    { Sent }
        \cup { [Sent EXCEPT !.text = x] : x \in Flips(enc.ciphertext) }
        \cup { [Sent EXCEPT !.header = x] : x \in Flips(enc.header) }
        \cup { [Sent EXCEPT !.tag = x] : x \in Flips(enc.tag) }
        \cup { [Sent EXCEPT !.text = Pattern(9, BadLength(tier))],
               [Sent EXCEPT !.header = Pattern(9, BadLength(tier))] }

\* BaseAESBlake.decrypt is called by a receiver; at most one of the six values
\* (key, nonce, context, ciphertext, header, tag) differs from the sender's
DecryptCall ==
    /\ enc.valid
    /\ \E d \in DecryptInputs :
          /\ d = Sent \/ Untampered
          /\ BeginCall("decrypt", d.text, d.header, d.tag)

\* the (key, nonce, context) a receiver builds its cipher from: those of the
\* encryption, or those with one bit of one of them flipped
ReceiverInputs ==
    LET same == [ key |-> enc.key, nonce |-> enc.nonce, context |-> enc.context ]
    IN  { same }
        \cup IF enc.start_counter # 0 THEN { }
             ELSE { [same EXCEPT !.key = x] : x \in Flips(enc.key) }
                  \cup { [same EXCEPT !.nonce = x] : x \in Flips(enc.nonce) }
                  \cup { [same EXCEPT !.context = x] : x \in Flips(enc.context) }

\* a receiver constructs its cipher object when the message has arrived
Construct ==
    /\ pc = "idle"
    /\ enc.valid
    /\ result.op = "encrypt"
    /\ \E ci \in ReceiverInputs : NewCipher(tier, ci.key, ci.nonce, ci.context)
    /\ call' = NoCall
    /\ loc' = NoLoc
    /\ rnd' = NoRnd
    /\ result' = NoResult
    /\ UNCHANGED << tier, pc, enc >>

----------------------------------------------------------------------------
(* run_encryption_rounds / run_decryption_rounds                            *)

\* faulty variant of after_lane_step: exchange_columns sits inside the for loop
after_lane_step_eager(inverse, g, n, keep_running) ==
    IF ~inverse THEN "exchange"
    ELSE IF g + 1 < n THEN "step"
    ELSE IF keep_running THEN "exchange" ELSE "ret"

\* where the driver continues once generator g (0-based) of n has been advanced:
\* encryption exchanges after the for loop over the generators; decryption
\* tests "while keep_running" there
after_lane_step(inverse, g, n, keep_running) ==
    IF g + 1 < n THEN "step"
    ELSE IF ~inverse THEN "exchange"
    ELSE IF keep_running THEN "exchange" ELSE "ret"

\* faulty variant of after_exchange: run_encryption_rounds returns after its
\* first exchange
after_exchange_return(inverse, keep_running) ==
    IF inverse THEN "step" ELSE "ret"

\* where the driver continues after exchange_columns
after_exchange(inverse, keep_running) ==
    IF inverse THEN "step"
    ELSE IF keep_running THEN "step" ELSE "ret"

\* faulty variant of EnterRounds: the decryption driver too begins with the
\* pass over the generators
EnterRounds_step_first(made, domain, inverse, ret) ==
    /\ keygen' = made.keygen
    /\ rnd' = [ blocks       |-> made.blocks,
                inverse      |-> inverse,
                domain       |-> domain,
                g            |-> 0,
                keep_running |-> TRUE,
                log          |-> List([k \in 1..Len(made.blocks) |-> << >>]),
                ret          |-> ret ]
    /\ loc' = [loc EXCEPT !.kdf = Append(@, << block_counter, domain >>)]
    /\ pc' = "step"

\* run_encryption_rounds / run_decryption_rounds once create_aes_blocks has
\* returned `made`: the generators, keep_running = True
EnterRounds(made, domain, inverse, ret) ==
    /\ keygen' = made.keygen
    /\ rnd' = [ blocks       |-> made.blocks,
                inverse      |-> inverse,
                domain       |-> domain,
                g            |-> 0,
                keep_running |-> TRUE,
                log          |-> List([k \in 1..Len(made.blocks) |-> << >>]),
                ret          |-> ret ]
    /\ loc' = [loc EXCEPT !.kdf = Append(@, << block_counter, domain >>)]
    /\ pc' = IF inverse THEN "exchange" ELSE "step"

\* the first lines of run_encryption_rounds / run_decryption_rounds:
\* create_aes_blocks, the generators, keep_running = True
StartRounds(chunks, domain, inverse, ret) ==
    EnterRounds(create_aes_blocks(tier, keygen, block_counter, chunks, domain),
                domain, inverse, ret)

\* faulty variant of StartTextGroup: the checksums of the groups before are
\* XORed into the chunks of the group
StartTextGroup_chained ==
    /\ pc = "text"
    /\ loc.gi < Len(loc.groups)
    /\ StartRounds(xor_with_each(At(loc.groups, loc.gi), loc.pchk), "MSG",
                   call.op = "decrypt", "text")
    /\ UNCHANGED << tier, key, nonce, context, block_counter, call, result, enc >>

\* "for chunk_group in group_by(...)": the next text group enters the rounds
StartTextGroup ==
    /\ pc = "text"
    /\ loc.gi < Len(loc.groups)
    /\ StartRounds(At(loc.groups, loc.gi), "MSG", call.op = "decrypt", "text")
    /\ UNCHANGED << tier, key, nonce, context, block_counter, call, result, enc >>

\* the driver's locals once next(gen, False) on generator r.g gave nx
lane_stepped(r, nx) ==
    [r EXCEPT !.blocks = Put(@, r.g, nx.ab),
              !.keep_running = nx.ret,
              !.log = Put(@, r.g, At(@, r.g) \o nx.steps),
              !.g = IF r.g + 1 < Len(r.blocks) THEN r.g + 1 ELSE 0]

\* "keep_running = next(gen, False)" for the next generator of the for loop
LaneStep ==
    /\ pc = "step"
    /\ rnd' = lane_stepped(rnd, IF rnd.inverse THEN decrypt_next(At(rnd.blocks, rnd.g))
                                ELSE encrypt_next(At(rnd.blocks, rnd.g)))
    /\ pc' = after_lane_step(rnd.inverse, rnd.g, Len(rnd.blocks), rnd'.keep_running)
    /\ UNCHANGED << tier, key, nonce, context, keygen, block_counter, call, loc,
                    result, enc >>

\* self.exchange_columns(aes_blocks) / self.exchange_columns(aes_blocks, inverse=True)
ExchangeColumns ==
    /\ pc = "exchange"
    /\ rnd' = [rnd EXCEPT
                 !.blocks = exchange_columns(tier, @, rnd.inverse),
                 !.log = List([k \in 1..Len(@) |->
                            Append(@[k], << IF rnd.inverse THEN "inv_exchange_columns"
                                            ELSE "exchange_columns", 0 >>)])]
    /\ pc' = after_exchange(rnd.inverse, rnd.keep_running)
    /\ UNCHANGED << tier, key, nonce, context, keygen, block_counter, call, loc,
                    result, enc >>

----------------------------------------------------------------------------
(* encrypt / decrypt / compute_auth_tag around the rounds                   *)

\* faulty variant of extend_state: the lanes are taken in reverse order
extend_state_reversed(out, aes_blocks) ==
    out \o Flatten(List([k \in 1..Len(aes_blocks) |->
                            aes_blocks[Len(aes_blocks) + 1 - k].state]))

\* "for block in aes_blocks: ciphertext.extend(block.state)" (in decrypt:
\* plaintext.extend)
extend_state(out, aes_blocks) == out \o Flatten(States(aes_blocks))

\* faulty variant of EndTextGroup: the header chunks are XORed into the
\* bytes that are put out
EndTextGroup_header_mixed ==
    /\ pc = "ret"
    /\ rnd.ret = "text"
    /\ loc' = [loc EXCEPT
                 !.out  = @ \o Flatten(xor_with_each(States(rnd.blocks), loc.hchunks)),
                 !.pchk = IF call.op = "encrypt"
                          THEN xor_with_each(@, At(loc.groups, loc.gi))
                          ELSE xor_with_each(@, States(rnd.blocks)),
                 !.gi   = @ + 1]
    /\ block_counter' = block_counter + 1
    /\ pc' = "text"
    /\ UNCHANGED << tier, key, nonce, context, keygen, call, rnd, result, enc >>

\* the body of the text loop after run_*_rounds returned
EndTextGroup ==
    /\ pc = "ret"
    /\ rnd.ret = "text"
    /\ loc' = [loc EXCEPT
                 !.out  = extend_state(@, rnd.blocks),
                 !.pchk = IF call.op = "encrypt"
                          THEN xor_with_each(@, At(loc.groups, loc.gi))
                          ELSE xor_with_each(@, States(rnd.blocks)),
                 !.gi   = @ + 1]
    /\ block_counter' = block_counter + 1
    /\ pc' = "text"
    /\ UNCHANGED << tier, key, nonce, context, keygen, call, rnd, result, enc >>

\* the text loop is over: compute_auth_tag is entered, up to the head of its loop
BeginAuthTag ==
    /\ pc = "text"
    /\ loc.gi = Len(loc.groups)
    /\ IF group_by_raises(loc.hchunks, aes_blocks_count(tier))
       THEN /\ result' = Raise(call.op, "EmptyData")
            /\ loc' = loc
            /\ pc' = "idle"
       ELSE /\ result' = result
            /\ loc' = [loc EXCEPT
                         !.hgroups = group_by(loc.hchunks, aes_blocks_count(tier)),
                         !.hchk    = create_many(aes_blocks_count(tier)),
                         !.hi      = 0]
            /\ pc' = "hdr"
    /\ UNCHANGED << tier, key, nonce, context, keygen, block_counter, call, rnd,
                    enc >>

\* the next header group enters the rounds
StartHeaderGroup ==
    /\ pc = "hdr"
    /\ loc.hi < Len(loc.hgroups)
    /\ StartRounds(At(loc.hgroups, loc.hi), "HDR", FALSE, "hdr")
    /\ UNCHANGED << tier, key, nonce, context, block_counter, call, result, enc >>

\* faulty variant of EndHeaderGroup: the block counter stays where it is
EndHeaderGroup_same_counter ==
    /\ pc = "ret"
    /\ rnd.ret = "hdr"
    /\ loc' = [loc EXCEPT !.hchk = xor_with_each(@, States(rnd.blocks)),
                          !.hi   = @ + 1]
    /\ pc' = "hdr"
    /\ UNCHANGED << tier, key, nonce, context, keygen, block_counter, call, rnd, result,
                    enc >>

\* the body of the header loop after run_encryption_rounds returned
EndHeaderGroup ==
    /\ pc = "ret"
    /\ rnd.ret = "hdr"
    /\ loc' = [loc EXCEPT !.hchk = xor_with_each(@, States(rnd.blocks)),
                          !.hi   = @ + 1]
    /\ block_counter' = block_counter + 1
    /\ pc' = "hdr"
    /\ UNCHANGED << tier, key, nonce, context, keygen, call, rnd, result, enc >>

\* the header loop is over: the plaintext checksums enter the rounds
StartChecksumGroup ==
    /\ pc = "hdr"
    /\ loc.hi = Len(loc.hgroups)
    /\ StartRounds(loc.pchk, "CHK", FALSE, "chk")
    /\ UNCHANGED << tier, key, nonce, context, block_counter, call, result, enc >>

\* faulty variant of compute_auth_tag_end: block_counter is not reset
compute_auth_tag_end_keep(aes_blocks, header_checksums, counter) ==
    [ tag |-> final_checksum(aes_blocks, header_checksums), block_counter |-> counter ]

\* the end of compute_auth_tag: the tag it returns and the counter it leaves
compute_auth_tag_end(aes_blocks, header_checksums, counter) ==
    [ tag |-> final_checksum(aes_blocks, header_checksums), block_counter |-> 0 ]

\* faulty variant of encrypt_return: the tag is appended to the ciphertext
encrypt_return_joined(ciphertext, auth_tag) ==
    [ op |-> "encrypt", status |-> "ok", returned |-> TRUE,
      ciphertext |-> ciphertext \o auth_tag, tag |-> auth_tag, plaintext |-> << >> ]

\* what encrypt returns
encrypt_return(ciphertext, auth_tag) ==
    [ op |-> "encrypt", status |-> "ok", returned |-> TRUE,
      ciphertext |-> ciphertext, tag |-> auth_tag, plaintext |-> << >> ]

\* the last three lines of decrypt
decrypt_return(plaintext, new_auth_tag, auth_tag) ==
    IF TagMismatch(new_auth_tag, auth_tag)
    THEN Raise("decrypt", "AuthFailure")
    ELSE [ op |-> "decrypt", status |-> "ok", returned |-> TRUE,
           ciphertext |-> << >>, tag |-> << >>, plaintext |-> plaintext ]

\* compute_auth_tag returns and encrypt / decrypt runs to its end
FinishCall ==
    /\ pc = "ret"
    /\ rnd.ret = "chk"
    /\ LET fin == compute_auth_tag_end(rnd.blocks, loc.hchk, block_counter)
       IN  /\ block_counter' = fin.block_counter
           /\ loc' = [loc EXCEPT !.new_auth_tag = fin.tag]
           /\ IF call.op = "encrypt"
              THEN /\ result' = encrypt_return(loc.out, fin.tag)
                   /\ enc' = [ valid |-> TRUE, key |-> key, nonce |-> nonce,
                               context |-> context, plaintext |-> call.text,
                               header |-> call.header, ciphertext |-> loc.out,
                               tag |-> fin.tag, start_counter |-> call.start_counter ]
              ELSE /\ result' = decrypt_return(loc.out, fin.tag, call.auth_tag)
                   /\ enc' = enc
    /\ pc' = "idle"
    /\ UNCHANGED << tier, key, nonce, context, keygen, call, rnd >>

Next ==
    \/ EncryptCall
    \/ DecryptCall
    \/ Construct
    \/ StartTextGroup
    \/ LaneStep
    \/ ExchangeColumns
    \/ EndTextGroup
    \/ BeginAuthTag
    \/ StartHeaderGroup
    \/ EndHeaderGroup
    \/ StartChecksumGroup
    \/ FinishCall

Spec == Init /\ [][Next]_vars

----------------------------------------------------------------------------
(* run_encryption_rounds / run_decryption_rounds called on a cipher object  *)

\* the chunks of the groups handed to the drivers
RoundsChunks(t) ==
    { List([k \in 1..aes_blocks_count(t) |-> Zeros(16)]),
      List([k \in 1..aes_blocks_count(t) |-> Pattern(16 * k, 16)]) }

\* the driver has been entered on a cipher as constructed from an empty key,
\* nonce and context: create_aes_blocks, the generators, keep_running = True
RoundsInit ==
    /\ tier \in Tiers
    /\ key = << >> /\ nonce = << >> /\ context = << >>
    /\ keygen = digest_context(tier, BaseBlake(tier, << >>, << >>, << >>))
    /\ block_counter \in { 0, 1 }
    /\ call = NoCall
    /\ loc = NoLoc
    /\ result = NoResult
    /\ enc = NoEnc
    /\ \E chunks \in RoundsChunks(tier), domain \in { "MSG", "HDR", "CHK" },
          inverse \in BOOLEAN :
          /\ rnd = [ blocks       |-> create_aes_blocks(tier, keygen, block_counter,
                                                        chunks, domain).blocks,
                     inverse      |-> inverse,
                     domain       |-> domain,
                     g            |-> 0,
                     keep_running |-> TRUE,
                     log          |-> List([k \in 1..Len(chunks) |-> << >>]),
                     ret          |-> "rounds" ]
          /\ pc = IF inverse THEN "exchange" ELSE "step"

RoundsNext ==
    \/ LaneStep
    \/ ExchangeColumns

\* the drivers are sequential loops: a lane step or an exchange that is due
\* is carried out
RoundsSpec ==
    RoundsInit /\ [][RoundsNext]_vars /\ WF_vars(LaneStep) /\ WF_vars(ExchangeColumns)


----------------------------------------------------------------------------
(* The round drivers and the group loops run to their end                   *)

\* "for gen in generators: keep_running = next(gen, False)": what each gave
next_of_each(aes_blocks, inverse) ==
    List([k \in 1..Len(aes_blocks) |->
            IF inverse THEN decrypt_next(aes_blocks[k]) ELSE encrypt_next(aes_blocks[k])])

\* the blocks after the for loop over the generators
blocks_of_each(nxs) == List([k \in 1..Len(nxs) |-> nxs[k].ab])

RECURSIVE encryption_loop(_, _)

\* run_encryption_rounds after the for loop of one turn of its while loop
encryption_turn_end(t, nxs) ==
    IF nxs[Len(nxs)].ret
    THEN encryption_loop(t, exchange_columns(t, blocks_of_each(nxs), FALSE))
    ELSE exchange_columns(t, blocks_of_each(nxs), FALSE)

\* run_encryption_rounds: "while keep_running", entered with keep_running = True
encryption_loop(t, aes_blocks) ==
    CASE aes_blocks = aes_blocks ->
        encryption_turn_end(t, next_of_each(aes_blocks, FALSE))

RECURSIVE decryption_loop(_, _)

\* run_decryption_rounds after the for loop of one turn of its while loop
decryption_turn_end(t, nxs) ==
    IF nxs[Len(nxs)].ret THEN decryption_loop(t, blocks_of_each(nxs))
    ELSE blocks_of_each(nxs)

\* run_decryption_rounds: "while keep_running", entered with keep_running = True
decryption_loop(t, aes_blocks) ==
    CASE aes_blocks = aes_blocks ->
        decryption_turn_end(t, next_of_each(exchange_columns(t, aes_blocks, TRUE), TRUE))

\* run_encryption_rounds / run_decryption_rounds once create_aes_blocks has
\* returned `made`: the blocks returned, and the keygen as it is left
rounds_of_blocks(t, made, inverse) ==
    CASE made = made ->
        [ blocks |-> IF inverse THEN decryption_loop(t, made.blocks)
                     ELSE encryption_loop(t, made.blocks),
          keygen |-> made.keygen ]

\* run_encryption_rounds(chunks, domain) / run_decryption_rounds(chunks, domain)
\* on a cipher object with this keygen and block_counter
run_rounds(t, kg, counter, chunks, domain, inverse) ==
    rounds_of_blocks(t, create_aes_blocks(t, kg, counter, chunks, domain), inverse)

----------------------------------------------------------------------------
(* encrypt / decrypt of BaseAESBlake run to their end                       *)

\* the KDF domain and the direction of a loop over groups: the text loop of
\* encrypt, the text loop of decrypt, the header loop of compute_auth_tag
domain_of(kind) == IF kind = "header" THEN "HDR" ELSE "MSG"

\* the body of a loop over groups after run_*_rounds returned aes_blocks;
\* acc holds the output list, the checksums and self.block_counter
group_turn_end(acc, kind, group, aes_blocks) ==
    [ out     |-> IF kind = "header" THEN acc.out ELSE extend_state(acc.out, aes_blocks),
      chk     |-> IF kind = "encrypt" THEN xor_with_each(acc.chk, group)
                  ELSE xor_with_each(acc.chk, States(aes_blocks)),
      counter |-> acc.counter + 1 ]

\* "for chunk_group in self.group_by(...)" from the g-th group (0-based) on
RECURSIVE group_loop(_, _, _, _, _, _)
group_loop(t, kg, kind, groups, g, acc) ==
    CASE g >= Len(groups) -> acc
      [] g < Len(groups) /\ acc = acc ->
            group_loop(t, kg, kind, groups, g + 1,
                       group_turn_end(acc, kind, At(groups, g),
                                      run_rounds(t, kg, acc.counter, At(groups, g),
                                                 domain_of(kind), kind = "decrypt").blocks))

\* compute_auth_tag after its header loop ended with h
auth_tag_after_header(t, kg, plaintext_checksums, h) ==
    CASE h = h ->
        compute_auth_tag_end(run_rounds(t, kg, h.counter, plaintext_checksums,
                                        "CHK", FALSE).blocks,
                             h.chk, h.counter)

\* BaseAESBlake.compute_auth_tag on an object with this keygen and
\* block_counter: whether group_by raised, the tag, block_counter afterwards
compute_auth_tag(t, kg, counter, header_chunks, plaintext_checksums) ==
    IF group_by_raises(header_chunks, aes_blocks_count(t))
    THEN [ raised |-> TRUE, tag |-> << >>, block_counter |-> counter ]
    ELSE [ raised |-> FALSE ]
         @@ auth_tag_after_header(t, kg, plaintext_checksums,
                group_loop(t, kg, "header",
                           group_by(header_chunks, aes_blocks_count(t)), 0,
                           [ out |-> << >>, chk |-> create_many(aes_blocks_count(t)),
                             counter |-> counter ]))

\* the last lines of encrypt / decrypt, compute_auth_tag having ended with `at`
call_end(op, out, auth_tag, at) ==
    [ result        |-> IF at.raised THEN Raise(op, "EmptyData")
                        ELSE IF op = "encrypt" THEN encrypt_return(out, at.tag)
                        ELSE decrypt_return(out, at.tag, auth_tag),
      block_counter |-> at.block_counter ]

\* encrypt / decrypt after the text loop ended with tx
call_after_text(t, kg, op, header_chunks, auth_tag, tx) ==
    CASE tx = tx ->
        call_end(op, tx.out, auth_tag,
                 compute_auth_tag(t, kg, tx.counter, header_chunks, tx.chk))

\* BaseAESBlake.encrypt / BaseAESBlake.decrypt on an object with this keygen
\* and block_counter: what the call returns or raises, block_counter afterwards
run_call(t, kg, counter, op, text, header, auth_tag) ==
    IF ~ValidLengths(t, text, header)
    THEN [ result |-> Raise(op, "InvalidInput"), block_counter |-> counter ]
    ELSE IF group_by_raises(split_bytes(text, aes_block_bytes), aes_blocks_count(t))
    THEN [ result |-> Raise(op, "EmptyData"), block_counter |-> counter ]
    ELSE call_after_text(t, kg, op, split_bytes(header, aes_block_bytes), auth_tag,
            group_loop(t, kg, op,
                       group_by(split_bytes(text, aes_block_bytes), aes_blocks_count(t)),
                       0,
                       [ out |-> << >>, chk |-> create_many(aes_blocks_count(t)),
                         counter |-> counter ]))

----------------------------------------------------------------------------
(* ParallelAESBlakeMixin: the worker pool                                   *)

\* what _enc_worker / _dec_worker / _hdr_worker return, the rounds having
\* given aes_blocks
pool_worker_return(t, kind, index, group, aes_blocks) ==
    [ index     |-> index,
      text      |-> IF kind = "header" THEN << >> ELSE Flatten(States(aes_blocks)),
      checksums |-> IF kind = "encrypt"
                    THEN xor_with_each(create_many(aes_blocks_count(t)), group)
                    ELSE xor_with_each(create_many(aes_blocks_count(t)),
                                       States(aes_blocks)) ]

\* faulty variant of pool_worker: the counter offset of the group is left out
pool_worker_no_offset(t, blob, kind, index, group) ==
    pool_worker_return(t, kind, index, group,
        run_rounds(t, blob.keygen, blob.block_counter, group,
                   domain_of(kind), kind = "decrypt").blocks)

\* _enc_worker / _dec_worker / _hdr_worker on the pickled cipher `blob`
pool_worker(t, blob, kind, index, group) ==
    pool_worker_return(t, kind, index, group,
        run_rounds(t, blob.keygen, blob.block_counter + index, group,
                   domain_of(kind), kind = "decrypt").blocks)

\* pickle.dumps(self), and the futures of pool.submit for each group
SubmitAll(kind, groups, counter) ==
    [ kind      |-> kind,
      groups    |-> groups,
      blob      |-> [ keygen |-> keygen, block_counter |-> counter ],
      futures   |-> List([i \in 1..Len(groups) |-> [ done |-> FALSE ]]),
      next      |-> 0,
      bytes_out |-> List([i \in 1..Len(groups) |-> << >>]),
      chk       |-> create_many(aes_blocks_count(tier)) ]

NoPool == SubmitAll("none", << >>, 0)

\* the locals of _run_pool and compute_auth_tag; `overtaken` holds the kinds of
\* the pools in which a worker ended before one submitted earlier
NoPoolLoc == [ pool |-> NoPool, hchunks |-> << >>, out |-> << >>, text_chk |-> << >>,
               overtaken |-> { } ]

\* the (key, nonce, context) the cipher with the pool is built from: each one
\* byte longer than what the keygen consumes
ParCipherInputs(t) == { ci \in CipherInputs(t) : ci.key # << >> }

ParInit ==
    /\ tier \in Tiers
    /\ \E ci \in ParCipherInputs(tier) :
          /\ key = ci.key
          /\ nonce = ci.nonce
          /\ context = ci.context
          /\ keygen = digest_context(tier, BaseBlake(tier, ci.key, ci.nonce, ci.context))
    /\ block_counter = 0
    /\ pc = "idle"
    /\ call = NoCall
    /\ loc = NoPoolLoc
    /\ rnd = NoRnd
    /\ result = NoResult
    /\ enc = NoEnc

\* ParallelAESBlakeMixin.encrypt / decrypt up to the submission of the text groups
ParBeginCall(op, text, header, auth_tag) ==
    /\ pc = "idle"
    /\ call' = [ op |-> op, text |-> text, header |-> header, auth_tag |-> auth_tag,
                 start_counter |-> block_counter ]
    /\ IF ~ValidLengths(tier, text, header)
       THEN /\ result' = Raise(op, "InvalidInput")
            /\ loc' = NoPoolLoc
            /\ pc' = "idle"
       ELSE IF group_by_raises(split_bytes(text, aes_block_bytes), aes_blocks_count(tier))
       THEN /\ result' = Raise(op, "EmptyData")
            /\ loc' = NoPoolLoc
            /\ pc' = "idle"
       ELSE /\ result' = NoResult
            /\ loc' = [ pool     |-> SubmitAll(op, group_by(split_bytes(text, aes_block_bytes),
                                                            aes_blocks_count(tier)),
                                               block_counter),
                        hchunks  |-> split_bytes(header, aes_block_bytes),
                        out      |-> << >>,
                        text_chk |-> << >>,
                        overtaken |-> { } ]
            /\ pc' = "pool"
    /\ UNCHANGED << tier, key, nonce, context, keygen, block_counter, rnd, enc >>

\* the parallel encrypt is called until a message has been encrypted
ParEncryptCall ==
    /\ ~enc.valid
    /\ block_counter <= MaxStale
    /\ \E tl \in TextLengths(tier), hl \in HeaderLengths(tier) :
          ParBeginCall("encrypt", Pattern(3, tl), Pattern(200, hl), << >>)

\* what the parallel decrypt is handed: the transmitted values, those with a
\* bit of the ciphertext or of the tag flipped, and a text of a bad length
ParDecryptInputs ==
    { Sent,
      [Sent EXCEPT !.text = FlipBit(enc.ciphertext, 0, 1)],
      [Sent EXCEPT !.tag = FlipBit(enc.tag, Len(enc.tag) - 1, 128)],
      [Sent EXCEPT !.text = Pattern(9, BadLength(tier))] }

ParDecryptCall ==
    /\ enc.valid
    /\ \E d \in ParDecryptInputs : ParBeginCall("decrypt", d.text, d.header, d.tag)

\* a worker process ends: any of those still running, in any order
WorkerEnds ==
    /\ pc \in { "pool", "hpool" }
    /\ \E i \in 1..Len(loc.pool.futures) :
          /\ ~loc.pool.futures[i].done
          /\ loc' = [loc EXCEPT
                       !.pool.futures[i].done = TRUE,
                       !.overtaken = IF \E j \in 1..(i - 1) : ~loc.pool.futures[j].done
                                     THEN @ \cup { loc.pool.kind } ELSE @]
    /\ UNCHANGED << tier, key, nonce, context, keygen, block_counter, pc, call, rnd,
                    result, enc >>

\* the parent's locals after fut.result() gave ret
collected(pool, ret) ==
    [pool EXCEPT !.bytes_out = Put(@, ret.index, ret.text),
                 !.chk       = xor_with_each(@, ret.checksums),
                 !.next      = @ + 1]

\* "for fut in futures: ... fut.result()": the parent waits for the futures in
\* the order of their submission; the future of a worker that has ended gives
\* what the worker returned
Collect ==
    /\ pc \in { "pool", "hpool" }
    /\ loc.pool.next < Len(loc.pool.futures)
    /\ At(loc.pool.futures, loc.pool.next).done
    /\ loc' = [loc EXCEPT !.pool =
                  collected(@, pool_worker(tier, loc.pool.blob, loc.pool.kind,
                                           loc.pool.next,
                                           At(loc.pool.groups, loc.pool.next)))]
    /\ UNCHANGED << tier, key, nonce, context, keygen, block_counter, pc, call, rnd,
                    result, enc >>

\* _run_pool after its pool: the counter moves on and compute_auth_tag runs up
\* to the submission of the header groups
TextPoolEnds ==
    /\ pc = "pool"
    /\ loc.pool.next = Len(loc.pool.futures)
    /\ block_counter' = block_counter + Len(loc.pool.groups)
    /\ IF group_by_raises(loc.hchunks, aes_blocks_count(tier))
       THEN /\ result' = Raise(call.op, "EmptyData")
            /\ loc' = [loc EXCEPT !.pool = NoPool]
            /\ pc' = "idle"
       ELSE /\ result' = result
            /\ loc' = [loc EXCEPT
                         !.out      = Flatten(loc.pool.bytes_out),
                         !.text_chk = loc.pool.chk,
                         !.pool     = SubmitAll("header",
                                                group_by(loc.hchunks, aes_blocks_count(tier)),
                                                block_counter')]
            /\ pc' = "hpool"
    /\ UNCHANGED << tier, key, nonce, context, keygen, call, rnd, enc >>

\* the rest of ParallelAESBlakeMixin.compute_auth_tag and of encrypt / decrypt,
\* the CHK rounds having given `fin` on counter self.block_counter + len(header_groups)
ParReturn(fin) ==
    /\ block_counter' = fin.block_counter
    /\ IF call.op = "encrypt"
       THEN /\ result' = encrypt_return(loc.out, fin.tag)
            /\ enc' = [ valid |-> TRUE, key |-> key, nonce |-> nonce,
                        context |-> context, plaintext |-> call.text,
                        header |-> call.header, ciphertext |-> loc.out,
                        tag |-> fin.tag, start_counter |-> call.start_counter ]
       ELSE /\ result' = decrypt_return(loc.out, fin.tag, call.auth_tag)
            /\ enc' = enc

\* compute_auth_tag after its pool, and the return of encrypt / decrypt
HeaderPoolEnds ==
    /\ pc = "hpool"
    /\ loc.pool.next = Len(loc.pool.futures)
    /\ ParReturn(auth_tag_after_header(tier, keygen, loc.text_chk,
                    [ chk |-> loc.pool.chk,
                      counter |-> block_counter + Len(loc.pool.groups) ]))
    /\ loc' = [loc EXCEPT !.pool = NoPool]
    /\ pc' = "idle"
    /\ UNCHANGED << tier, key, nonce, context, keygen, call, rnd >>

ParNext ==
    \/ ParEncryptCall
    \/ ParDecryptCall
    \/ WorkerEnds
    \/ Collect
    \/ TextPoolEnds
    \/ HeaderPoolEnds

ParSpec == ParInit /\ [][ParNext]_vars

----------------------------------------------------------------------------
(* An AES block under the round keys of the AES-128 key schedule            *)
(* (tests/aes_block/test_example_vectors.py)                                *)

rcon == << 1, 2, 4, 8, 16, 32, 64, 128, 27, 54 >>

\* generate_original_aes128_round_keys: temp for word i, w[i-1] being prev
key_schedule_temp(prev, i) ==
    IF i % 4 = 0
    THEN << Xor8(SBoxENC[prev[2] + 1], rcon[i \div 4]), SBoxENC[prev[3] + 1],
            SBoxENC[prev[4] + 1], SBoxENC[prev[1] + 1] >>
    ELSE prev

\* generate_original_aes128_round_keys: "for i in range(Nk, Nb*(Nr+1))" from i on
RECURSIVE key_schedule_words(_, _)
key_schedule_words(w, i) ==
    CASE i >= 44 -> w
      [] i < 44 /\ w = w ->
            key_schedule_words(
                Append(w, XorBytes(At(w, i - 4), key_schedule_temp(At(w, i - 1), i))),
                i + 1)

\* generate_original_aes128_round_keys: the round keys of the words w
round_keys_of_words(w) ==
    List([r \in 1..11 |-> w[4 * r - 3] \o w[4 * r - 2] \o w[4 * r - 1] \o w[4 * r]])

\* generate_original_aes128_round_keys(key), key of 16 bytes
generate_original_aes128_round_keys(k) ==
    round_keys_of_words(
        key_schedule_words(List([i \in 1..4 |-> Slice(k, 4 * i - 4, 4 * i)]), 4))

\* AESBlock.output
output(ab) == ab.state

\* the vectors of test_fips197_example_vectors (FIPS-197 appendices B and C.1)
\* and four known answers of the AES-128 validation suite (GFSbox, KeySbox,
\* VarTxt, VarKey)
ExampleVectors ==
    << [ plaintext   |-> << 50, 67, 246, 168, 136, 90, 48, 141, 49, 49, 152, 162, 224, 55, 7, 52 >>,
         secret_key  |-> << 43, 126, 21, 22, 40, 174, 210, 166, 171, 247, 21, 136, 9, 207, 79, 60 >>,
         expected_ct |-> << 57, 37, 132, 29, 2, 220, 9, 251, 220, 17, 133, 151, 25, 106, 11, 50 >> ],
       [ plaintext   |-> << 0, 17, 34, 51, 68, 85, 102, 119, 136, 153, 170, 187, 204, 221, 238, 255 >>,
         secret_key  |-> << 0, 1, 2, 3, 4, 5, 6, 7, 8, 9, 10, 11, 12, 13, 14, 15 >>,
         expected_ct |-> << 105, 196, 224, 216, 106, 123, 4, 48, 216, 205, 183, 128, 112, 180, 197, 90 >> ],
       [ plaintext   |-> << 243, 68, 129, 236, 60, 198, 39, 186, 205, 93, 195, 251, 8, 242, 115, 230 >>,
         secret_key  |-> << 0, 0, 0, 0, 0, 0, 0, 0, 0, 0, 0, 0, 0, 0, 0, 0 >>,
         expected_ct |-> << 3, 54, 118, 62, 150, 109, 146, 89, 90, 86, 124, 201, 206, 83, 127, 94 >> ],
       [ plaintext   |-> << 0, 0, 0, 0, 0, 0, 0, 0, 0, 0, 0, 0, 0, 0, 0, 0 >>,
         secret_key  |-> << 16, 165, 136, 105, 215, 75, 229, 163, 116, 207, 134, 124, 251, 71, 56, 89 >>,
         expected_ct |-> << 109, 37, 30, 105, 68, 176, 81, 224, 78, 170, 111, 180, 219, 247, 132, 101 >> ],
       [ plaintext   |-> << 128, 0, 0, 0, 0, 0, 0, 0, 0, 0, 0, 0, 0, 0, 0, 0 >>,
         secret_key  |-> << 0, 0, 0, 0, 0, 0, 0, 0, 0, 0, 0, 0, 0, 0, 0, 0 >>,
         expected_ct |-> << 58, 215, 142, 114, 108, 30, 192, 43, 126, 191, 233, 43, 35, 217, 236, 52 >> ],
       [ plaintext   |-> << 0, 0, 0, 0, 0, 0, 0, 0, 0, 0, 0, 0, 0, 0, 0, 0 >>,
         secret_key  |-> << 128, 0, 0, 0, 0, 0, 0, 0, 0, 0, 0, 0, 0, 0, 0, 0 >>,
         expected_ct |-> << 14, 221, 51, 211, 198, 33, 229, 70, 69, 91, 216, 186, 20, 24, 190, 200 >> ] >>

\* test_fips197_example_vectors: aes1 is built
AesInit ==
    /\ tier \in { 256 }
    /\ \E v \in 1..Len(ExampleVectors) :
          /\ call = [NoCall EXCEPT !.op = "vector", !.text = ExampleVectors[v].plaintext,
                                   !.auth_tag = ExampleVectors[v].expected_ct]
          /\ key = ExampleVectors[v].secret_key
          /\ rnd = [NoRnd EXCEPT !.blocks =
                       << AESBlock(ExampleVectors[v].plaintext,
                                   generate_original_aes128_round_keys(
                                       ExampleVectors[v].secret_key)) >>]
    /\ nonce = << >>
    /\ context = << >>
    /\ keygen = << >>
    /\ block_counter = 0
    /\ pc = "aes1"
    /\ loc = NoLoc
    /\ result = NoResult
    /\ enc = NoEnc

\* "for _ in aes1.encrypt(): pass": the generator is resumed until it is exhausted
Aes1Next ==
    /\ pc = "aes1"
    /\ rnd.blocks[1].pos # "exhausted"
    /\ rnd' = [rnd EXCEPT !.blocks[1] = encrypt_next(@).ab,
                          !.log = @ \o encrypt_next(rnd.blocks[1]).steps]
    /\ UNCHANGED << tier, key, nonce, context, keygen, block_counter, pc, call, loc,
                    result, enc >>

\* aes1.output is read and aes2 is built from it
Aes2Create ==
    /\ pc = "aes1"
    /\ rnd.blocks[1].pos = "exhausted"
    /\ result' = [result EXCEPT !.op = "vector", !.ciphertext = output(rnd.blocks[1])]
    /\ rnd' = [NoRnd EXCEPT !.blocks = << AESBlock(output(rnd.blocks[1]),
                                                   rnd.blocks[1].round_keys) >>,
                            !.inverse = TRUE]
    /\ pc' = "aes2"
    /\ UNCHANGED << tier, key, nonce, context, keygen, block_counter, call, loc, enc >>

\* "for _ in aes2.decrypt(): pass"
Aes2Next ==
    /\ pc = "aes2"
    /\ rnd.blocks[1].pos # "exhausted"
    /\ rnd' = [rnd EXCEPT !.blocks[1] = decrypt_next(@).ab,
                          !.log = @ \o decrypt_next(rnd.blocks[1]).steps]
    /\ UNCHANGED << tier, key, nonce, context, keygen, block_counter, pc, call, loc,
                    result, enc >>

\* aes2.output is read
Aes2Output ==
    /\ pc = "aes2"
    /\ rnd.blocks[1].pos = "exhausted"
    /\ result' = [result EXCEPT !.plaintext = output(rnd.blocks[1]), !.returned = TRUE]
    /\ pc' = "vector done"
    /\ UNCHANGED << tier, key, nonce, context, keygen, block_counter, call, loc, rnd,
                    enc >>

AesNext ==
    \/ Aes1Next
    \/ Aes2Create
    \/ Aes2Next
    \/ Aes2Output

AesSpec == AesInit /\ [][AesNext]_vars

----------------------------------------------------------------------------
(* BaseUint of src/uint.py as the masked integers use it: a value of        *)
(* bit_count() bits is a big-endian string of bit_count() / 8 bytes         *)

UXor(a, b) == List([k \in 1..Len(a) |-> Xor8(a[k], b[k])])

UAnd(a, b) == List([k \in 1..Len(a) |-> And8(a[k], b[k])])

\* a | b = (a ^ b) + (a & b) in every byte
UOr(a, b) == List([k \in 1..Len(a) |-> Xor8(a[k], b[k]) + And8(a[k], b[k])])

UNot(a) == List([k \in 1..Len(a) |-> 255 - a[k]])

\* the bytes 1..k of a + b + c, the carry c entering at byte k
RECURSIVE UAddC(_, _, _, _)
UAddC(a, b, k, c) ==
    IF k = 0 THEN << >>
    ELSE UAddC(a, b, k - 1, (a[k] + b[k] + c) \div 256) \o << (a[k] + b[k] + c) % 256 >>

\* BaseUint.__add__: cls((a + b) & max_value())
UAdd(a, b) == UAddC(a, b, Len(a), 0)

\* BaseUint.__sub__: cls((a - b) & max_value()), which is a + ~b + 1
USub(a, b) == UAddC(a, UNot(b), Len(a), 1)

\* the bytes 1..k of a * d + c for one byte d, the carry c entering at byte k
RECURSIVE UMulC(_, _, _, _)
UMulC(a, d, k, c) ==
    IF k = 0 THEN << >>
    ELSE UMulC(a, d, k - 1, (a[k] * d + c) \div 256) \o << (a[k] * d + c) % 256 >>

\* a times the number of the bytes 1..k of b
RECURSIVE UMulTo(_, _, _)
UMulTo(a, b, k) ==
    IF k = 0 THEN List([j \in 1..Len(a) |-> 0])
    ELSE UAdd(Tail(UMulTo(a, b, k - 1)) \o << 0 >>, UMulC(a, b[k], Len(a), 0))

\* BaseUint.__mul__: cls((a * b) & max_value())
UMul(a, b) == UMulTo(a, b, Len(b))

\* the operator module functions handed around as masking_fn, unmasking_fn, operator
Operate(fn, a, b) ==
    CASE fn = "xor"  -> UXor(a, b)
      [] fn = "and_" -> UAnd(a, b)
      [] fn = "add"  -> UAdd(a, b)
      [] fn = "sub"  -> USub(a, b)
      [] fn = "mul"  -> UMul(a, b)

----------------------------------------------------------------------------
(* BaseMaskedUint (src/masked/masked_uint.py)                               *)

MaxOrder == 2            \* masking orders 1..MaxOrder

Seeds == { 0, 1, 2, 3 }  \* the random sources tried

\* secrets.randbits(bits) for the pos-th draw of the source `seed`
randbits(seed, pos, bits) ==
    List([j \in 1..(bits \div 8) |->
            CASE seed = 0 -> 0
              [] seed = 1 -> 255
              [] OTHER    -> (seed * 97 + pos * 61 + pos * pos * 7 + j * 29) % 256])

\* get_random_uints(count) on the source rng: the words, the source afterwards
get_random_uints(rng, bits, count) ==
    [ uints |-> List([k \in 1..count |-> randbits(rng.seed, rng.pos + k - 1, bits)]),
      rng   |-> [rng EXCEPT !.pos = @ + count] ]

masking_fn_of(domain) == IF domain = "BOOLEAN" THEN "xor" ELSE "sub"

unmasking_fn_of(domain) == IF domain = "BOOLEAN" THEN "xor" ELSE "add"

\* "for mask in masks: v = fn(v, mask)"
RECURSIVE fold_masks(_, _, _)
fold_masks(fn, v, masks) ==
    IF masks = << >> THEN v
    ELSE fold_masks(fn, Operate(fn, v, Head(masks)), Tail(masks))

\* BaseMaskedUint.__init__ with the masks get_random_uints gave
MaskedUint(bits, value, order, domain, masks) ==
    [ bits         |-> bits,
      order        |-> order,
      domain       |-> domain,
      share_count  |-> order + 1,
      masking_fn   |-> masking_fn_of(domain),
      unmasking_fn |-> unmasking_fn_of(domain),
      masks        |-> masks,
      masked_value |-> fold_masks(masking_fn_of(domain), value, masks) ]

\* the shares property: [self.masked_value, *self.masks]
shares(mv) == << mv.masked_value >> \o mv.masks

\* BaseMaskedUint.unmask
unmask(mv) == fold_masks(mv.unmasking_fn, mv.masked_value, mv.masks)

\* faulty variant of refresh_masks: the masked value is updated by the
\* unmasking operation
refresh_masks_unmasking(mv, new_masks) ==
    [mv EXCEPT !.masks = List([k \in 1..Len(new_masks) |->
                                 Operate(mv.unmasking_fn, mv.masks[k], new_masks[k])]),
               !.masked_value = fold_masks(mv.unmasking_fn, @, new_masks)]

\* BaseMaskedUint.refresh_masks with the new masks get_random_uints gave
refresh_masks(mv, new_masks) ==
    [mv EXCEPT !.masks = List([k \in 1..Len(new_masks) |->
                                 Operate(mv.unmasking_fn, mv.masks[k], new_masks[k])]),
               !.masked_value = fold_masks(mv.masking_fn, @, new_masks)]

\* BaseMaskedUint.create: the shares setter, the domain and its functions
create(mv, out, domain) ==
    [mv EXCEPT !.masked_value = Head(out),
               !.masks        = Tail(out),
               !.domain       = domain,
               !.masking_fn   = masking_fn_of(domain),
               !.unmasking_fn = unmasking_fn_of(domain)]

\* faulty variant of validate_binary_operands: the domain of the other
\* operand is not looked at
validate_binary_operands_self_only(mv, other, domain) ==
    IF mv.domain # domain THEN "ValueError"
    ELSE IF mv.order # other.order THEN "ValueError"
    ELSE IF mv.bits # other.bits THEN "TypeError"
    ELSE "none"

\* validate_binary_operands: the exception it raises, "none" if it returns
validate_binary_operands(mv, other, domain) ==
    IF mv.domain # domain \/ other.domain # domain THEN "ValueError"
    ELSE IF mv.order # other.order THEN "ValueError"
    ELSE IF mv.bits # other.bits THEN "TypeError"
    ELSE "none"

\* _xor_add_sub_helper after the validation
xor_add_sub(mv, other, operator) ==
    create(mv, List([i \in 1..mv.share_count |->
                        Operate(operator, shares(mv)[i], shares(other)[i])]),
           mv.domain)

\* _and_mul_helper: the pairs (i, j) in the order of its two loops
RECURSIVE dom_pairs(_, _, _)
dom_pairs(i, j, share_count) ==
    IF i >= share_count - 1 THEN << >>
    ELSE IF j >= share_count THEN dom_pairs(i + 1, i + 2, share_count)
    ELSE << << i, j >> >> \o dom_pairs(i, j + 1, share_count)

\* faulty variant of dom_pair: out[j] is left alone
dom_pair_half(mv, operator, x, y, out, ij, rand) ==
    [out EXCEPT ![ij[1] + 1] =
        Operate(mv.unmasking_fn, @,
                Operate(mv.unmasking_fn, Operate(operator, At(x, ij[1]), At(y, ij[2])), rand))]

\* _and_mul_helper: the body of the inner loop for the pair ij = (i, j)
dom_pair(mv, operator, x, y, out, ij, rand) ==
    [out EXCEPT ![ij[1] + 1] =
        Operate(mv.unmasking_fn, @,
                Operate(mv.unmasking_fn, Operate(operator, At(x, ij[1]), At(y, ij[2])), rand)),
                ![ij[2] + 1] =
        Operate(mv.unmasking_fn, @,
                Operate(mv.masking_fn, Operate(operator, At(x, ij[2]), At(y, ij[1])), rand))]

\* _and_mul_helper: the two loops from the k-th pair on
RECURSIVE dom_loops(_, _, _, _, _, _, _, _)
dom_loops(mv, operator, x, y, out, pairs, rand_vals, k) ==
    CASE k > Len(pairs) -> out
      [] k <= Len(pairs) /\ out = out ->
            dom_loops(mv, operator, x, y,
                      dom_pair(mv, operator, x, y, out, pairs[k], rand_vals[k]),
                      pairs, rand_vals, k + 1)

\* _and_mul_helper after the validation, with the pair_count random values
and_mul(mv, other, operator, rand_vals) ==
    create(mv,
           dom_loops(mv, operator, shares(mv), shares(other),
                     List([i \in 1..mv.share_count |->
                             Operate(operator, shares(mv)[i], shares(other)[i])]),
                     dom_pairs(0, 1, mv.share_count), rand_vals, 1),
           mv.domain)

\* pair_count of _and_mul_helper
pair_count(mv) == (mv.share_count * mv.order) \div 2

\* __or__ after (self & other) gave anded
or_shares(mv, other, anded) ==
    create(mv, List([i \in 1..mv.share_count |->
                        UXor(shares(anded)[i], UXor(shares(mv)[i], shares(other)[i]))]),
           mv.domain)

\* btoa: psi
psi(masked, mask) == USub(UXor(masked, mask), mask)

\* btoa: convert, "Refresh masks" (the masks are new_masks[1..], x is 0-based)
convert_refresh(x, new_masks) ==
    List([k \in 1..Len(x) |->
            IF k = 1 THEN fold_masks("xor", x[1], new_masks)
            ELSE UXor(x[k], new_masks[k - 1])])

\* faulty variant of convert_psi: the first term is never x[0]
convert_psi_no_first_term(x, n) ==
    List([k \in 1..n |-> psi(x[1], x[k + 1])])

\* btoa: convert, "Gadget psi": y
convert_psi(x, n) ==
    List([k \in 1..n |->
            IF k = 1
            THEN UXor(IF ((n - 1) % 2) = 1 THEN x[1] ELSE Zeros(Len(x[1])), psi(x[1], x[2]))
            ELSE psi(x[1], x[k + 1])])

\* btoa: convert, "Combine results"
convert_combine(n, first, second) ==
    [ out |-> List([i \in 1..(n - 2) |-> UAdd(first.out[i], second.out[i])])
                  \o << first.out[n - 1], second.out[n - 1] >>,
      rng |-> second.rng ]

RECURSIVE convert(_, _, _)

\* btoa: convert, the second recursive call, the first having returned
convert_second(y, n, first) == convert_combine(n, first, convert(y, n, first.rng))

\* btoa: convert, the two recursive calls on the refreshed x
convert_halves(x, n, rng) == convert_second(convert_psi(x, n), n, convert(Tail(x), n, rng))

\* btoa: convert after get_random_uints gave drawn
convert_refreshed(x, n, drawn) == convert_halves(convert_refresh(x, drawn.uints), n, drawn.rng)

\* btoa: convert(x, n_plus1) on the source rng: the shares, the source afterwards
convert(x, n_plus1, rng) ==
    IF n_plus1 - 1 = 1
    THEN [ out |-> << UXor(x[1], x[2]) >>, rng |-> rng ]
    ELSE convert_refreshed(x, n_plus1 - 1, get_random_uints(rng, 8 * Len(x[1]), Len(x) - 1))

\* btoa after convert returned converted
btoa_end(mv, converted) ==
    [ mv |-> create(mv, converted.out, "ARITHMETIC"), rng |-> converted.rng ]

\* BaseMaskedUint.btoa on the source rng: the object and the source afterwards
btoa(mv, rng) ==
    IF mv.domain # "BOOLEAN" THEN [ mv |-> mv, rng |-> rng ]
    ELSE btoa_end(mv, convert(shares(mv) \o << Zeros(mv.bits \div 8) >>,
                              mv.share_count + 1, rng))

----------------------------------------------------------------------------
(* Masked values built and used as in tests/masked (test_masked_uint.py,    *)
(* conftest.py)                                                             *)

\* the uint_class of MaskedUint8, MaskedUint32, MaskedUint64
MaskedBits == { 8, 32, 64 }

Domains == { "BOOLEAN", "ARITHMETIC" }

\* values of secrets.randbits(bit_count) the objects are built from
ValueSamples(bits) ==
    { Zeros(bits \div 8),
      List([j \in 1..(bits \div 8) |-> 255]),
      List([j \in 1..(bits \div 8) |-> (83 + 57 * j) % 256]) }

\* get_randomly_masked_uint twice, as in get_many_randomly_masked_uints
MaskInit ==
    /\ tier \in { 256 }
    /\ key = << >> /\ nonce = << >> /\ context = << >> /\ keygen = << >>
    /\ block_counter = 0
    /\ rnd = NoRnd
    /\ enc = NoEnc
    /\ pc = "masked"
    /\ result = [ op |-> "none", raised |-> "none", out |-> << >> ]
    /\ \E bits \in MaskedBits, domain \in Domains, order \in 1..MaxOrder, seed \in Seeds :
          /\ call = [ op |-> "none", bits |-> bits, domain |-> domain, order |-> order ]
          /\ \E vx, vy \in ValueSamples(bits) :
                loc = [ values    |-> << vx, vy >>,
                        mvs       |-> << MaskedUint(bits, vx, order, domain,
                                             get_random_uints([seed |-> seed, pos |-> 0],
                                                              bits, order).uints),
                                         MaskedUint(bits, vy, order, domain,
                                             get_random_uints([seed |-> seed, pos |-> order],
                                                              bits, order).uints) >>,
                        rng       |-> [ seed |-> seed, pos |-> 2 * order ],
                        refreshed |-> FALSE,
                        converted |-> FALSE ]

\* mv.refresh_masks() on the first object
RefreshMasks ==
    /\ pc = "masked"
    /\ ~loc.refreshed
    /\ loc' = [loc EXCEPT
                 !.mvs[1] = refresh_masks(@, get_random_uints(loc.rng, call.bits,
                                                              call.order).uints),
                 !.rng = get_random_uints(loc.rng, call.bits, call.order).rng,
                 !.refreshed = TRUE]
    /\ call' = [call EXCEPT !.op = "refresh_masks"]
    /\ UNCHANGED << tier, key, nonce, context, keygen, block_counter, pc, rnd, result, enc >>

\* mv.btoa() on the first object
Btoa ==
    /\ pc = "masked"
    /\ ~loc.converted
    /\ loc' = [loc EXCEPT !.mvs[1] = btoa(@, loc.rng).mv,
                          !.rng = btoa(loc.mvs[1], loc.rng).rng,
                          !.converted = TRUE]
    /\ call' = [call EXCEPT !.op = "btoa"]
    /\ UNCHANGED << tier, key, nonce, context, keygen, block_counter, pc, rnd, result, enc >>

\* what a binary operator of the first object with the second returns or raises
binary_result(op, x, y, rand_vals) ==
    IF validate_binary_operands(x, y, "BOOLEAN") # "none"
    THEN [ op |-> op, raised |-> validate_binary_operands(x, y, "BOOLEAN"), out |-> << >> ]
    ELSE [ op |-> op, raised |-> "none",
           out |-> CASE op = "__xor__" -> xor_add_sub(x, y, "xor")
                     [] op = "__and__" -> and_mul(x, y, "and_", rand_vals)
                     [] op = "__or__"  -> or_shares(x, y, and_mul(x, y, "and_", rand_vals)) ]

\* mvs[0] ^ mvs[1], mvs[0] & mvs[1], mvs[0] | mvs[1]
BinaryOperator ==
    /\ pc = "masked"
    /\ \E op \in { "__xor__", "__and__", "__or__" } :
          /\ call' = [call EXCEPT !.op = op]
          /\ result' = binary_result(op, loc.mvs[1], loc.mvs[2],
                           get_random_uints(loc.rng, call.bits,
                                            pair_count(loc.mvs[1])).uints)
    /\ pc' = "masked done"
    /\ UNCHANGED << tier, key, nonce, context, keygen, block_counter, loc, rnd, enc >>

----------------------------------------------------------------------------
(* The binary operators on operands built apart from each other             *)

\* the domain an operator hands to validate_binary_operands
operator_domain(op) ==
    IF op \in { "__xor__", "__and__", "__or__" } THEN "BOOLEAN" ELSE "ARITHMETIC"

\* the six binary operators of BaseMaskedUint
BinaryOperators == { "__xor__", "__and__", "__or__", "__add__", "__sub__", "__mul__" }

\* what x op y returns or raises
binary_operation(op, x, y, rand_vals) ==
    IF operator_domain(op) = "BOOLEAN" THEN binary_result(op, x, y, rand_vals)
    ELSE IF validate_binary_operands(x, y, "ARITHMETIC") # "none"
    THEN [ op |-> op, raised |-> validate_binary_operands(x, y, "ARITHMETIC"),
           out |-> << >> ]
    ELSE [ op |-> op, raised |-> "none",
           out |-> CASE op = "__add__" -> xor_add_sub(x, y, "add")
                     [] op = "__sub__" -> xor_add_sub(x, y, "sub")
                     [] op = "__mul__" -> and_mul(x, y, "mul", rand_vals) ]

\* the widths of the operands
OperandBits == { 8, 32 }

\* one masked object: a value that is not zero, random words that are not zero
Operand(bits, domain, order, pos) ==
    MaskedUint(bits, List([j \in 1..(bits \div 8) |-> (83 + 57 * j + pos) % 256]),
               order, domain,
               get_random_uints([seed |-> 2, pos |-> pos], bits, order).uints)

\* two masked objects, each of its own width, domain and order
OperandsInit ==
    /\ tier \in { 256 }
    /\ key = << >> /\ nonce = << >> /\ context = << >> /\ keygen = << >>
    /\ block_counter = 0
    /\ rnd = NoRnd
    /\ enc = NoEnc
    /\ pc = "operands"
    /\ result = [ op |-> "none", raised |-> "none", out |-> << >> ]
    /\ call = [ op |-> "none" ]
    /\ \E bx, by \in OperandBits, dx, dy \in Domains, ox, oy \in 1..MaxOrder :
          loc = [ mvs |-> << Operand(bx, dx, ox, 0), Operand(by, dy, oy, ox) >>,
                  rng |-> [ seed |-> 2, pos |-> ox + oy ] ]

\* mvs[0] op mvs[1] for one of the six binary operators
BinaryOperation ==
    /\ pc = "operands"
    /\ \E op \in BinaryOperators :
          /\ call' = [ op |-> op ]
          /\ result' = binary_operation(op, loc.mvs[1], loc.mvs[2],
                           get_random_uints(loc.rng, loc.mvs[1].bits,
                                            pair_count(loc.mvs[1])).uints)
    /\ pc' = "operands done"
    /\ UNCHANGED << tier, key, nonce, context, keygen, block_counter, loc, rnd, enc >>

OperandsNext == BinaryOperation

OperandsSpec == OperandsInit /\ [][OperandsNext]_vars

MaskNext ==
    \/ RefreshMasks
    \/ Btoa
    \/ BinaryOperator

MaskSpec == MaskInit /\ [][MaskNext]_vars

----------------------------------------------------------------------------
(* derive_keys called on a keygen (tests/blake_keygen/test_derive_keys.py)  *)

MaxKeyCount == 3         \* key_count is 1..MaxKeyCount, or that of the cipher

KeyCounts == (1..MaxKeyCount) \cup { key_count }

\* block counters handed to derive_keys
KdfCounters == { 0, 1, 65536 }

\* a keygen as the cipher builds it
KdfInit ==
    /\ tier \in Tiers
    /\ \E ci \in CipherInputs(tier) :
          /\ key = ci.key
          /\ nonce = ci.nonce
          /\ context = ci.context
          /\ keygen = digest_context(tier, BaseBlake(tier, ci.key, ci.nonce, ci.context))
    /\ block_counter = 0
    /\ pc = "kdf"
    /\ call = [ op |-> "none", key_count |-> 0, counter |-> 0, domain |-> "CTX" ]
    /\ loc = NoLoc
    /\ rnd = NoRnd
    /\ result = [ op |-> "none", keys |-> << >> ]
    /\ enc = NoEnc

\* keygen.derive_keys(key_count, counter, domain) has returned dk
derive_keys_returned(dk) ==
    /\ result' = [ op |-> "derive_keys", keys |-> dk.keys ]
    /\ keygen' = dk.self

\* keygen.derive_keys(key_count, counter, domain) is called
DeriveKeys ==
    /\ pc = "kdf"
    /\ call.op = "none"
    /\ \E kc \in KeyCounts, counter \in KdfCounters, domain \in KDFDomain :
          /\ call' = [ op |-> "derive_keys", key_count |-> kc, counter |-> counter,
                       domain |-> domain ]
          /\ derive_keys_returned(derive_keys(tier, keygen, kc, Uint64(counter), domain))
    /\ UNCHANGED << tier, key, nonce, context, block_counter, pc, loc, rnd, enc >>

KdfNext == DeriveKeys

KdfSpec == KdfInit /\ [][KdfNext]_vars


----------------------------------------------------------------------------
(* init_state_vector called on a keygen                                     *)
(* (tests/blake_keygen/test_core_methods.py)                                *)

\* 64-bit counters as Uint64: 0, 1, 2^32, 2^32 - 1, v_max // 2, v_max // 3 and
\* v_max of the 64-bit tier, and one with eight different bytes
IsvCounters ==
    { << 0, 0, 0, 0 >>, << 0, 0, 0, 1 >>, << 0, 1, 0, 0 >>, << 0, 0, 65535, 65535 >>,
      << 32767, 65535, 65535, 65535 >>, << 21845, 21845, 21845, 21845 >>,
      << 65535, 65535, 65535, 65535 >>, << 258, 772, 1286, 1800 >> }

\* entropy vectors of 8 words: that of the test (nonce = bytes(range(v_bits))),
\* the largest words, and words next to the largest
IsvEntropies(t) ==
    { bytes_to_uint_vector(t, List([i \in 1..bit_length(t) |-> i - 1]), 8),
      bytes_to_uint_vector(t, List([i \in 1..bit_length(t) |-> 255]), 8),
      bytes_to_uint_vector(t, List([i \in 1..bit_length(t) |-> 255 - (i % 2)]), 8) }

\* blake = cls(key=b'', nonce=b'', context=b'')
IsvInit ==
    /\ tier \in Tiers
    /\ key = << >> /\ nonce = << >> /\ context = << >>
    /\ keygen = BaseBlake(tier, << >>, << >>, << >>)
    /\ block_counter = 0
    /\ pc = "isv"
    /\ call = [ op |-> "none", entropy |-> << >>, counter |-> << 0, 0, 0, 0 >>,
                domain |-> "CTX" ]
    /\ loc = NoLoc
    /\ rnd = NoRnd
    /\ result = [ op |-> "none" ]
    /\ enc = NoEnc

\* blake.init_state_vector(entropy, counter, domain)
InitStateVector ==
    /\ pc = "isv"
    /\ call.op = "none"
    /\ \E entropy \in IsvEntropies(tier), counter \in IsvCounters, domain \in KDFDomain :
          /\ call' = [ op |-> "init_state_vector", entropy |-> entropy,
                       counter |-> counter, domain |-> domain ]
          /\ keygen' = init_state_vector(tier, keygen, entropy, counter, domain)
    /\ result' = [ op |-> "init_state_vector" ]
    /\ UNCHANGED << tier, key, nonce, context, block_counter, pc, loc, rnd, enc >>

IsvNext == InitStateVector

IsvSpec == IsvInit /\ [][IsvNext]_vars
----------------------------------------------------------------------------
(* The unary operators of BaseMaskedUint: ~x, x << n, x >> n, rotl, rotr     *)

\* bit p of the word a, p = 1 for the most significant bit
UBit(a, p) == (a[((p - 1) \div 8) + 1] \div Pow2[8 - ((p - 1) % 8)]) % 2

\* the word of the bits b, most significant first
UOfBits(b) ==
    List([k \in 1..(Len(b) \div 8) |->
            128 * b[8 * k - 7] + 64 * b[8 * k - 6] + 32 * b[8 * k - 5] + 16 * b[8 * k - 4]
            + 8 * b[8 * k - 3] + 4 * b[8 * k - 2] + 2 * b[8 * k - 1] + b[8 * k]])

\* BaseUint.__lshift__: cls(value << n), the constructor keeps the low bits
ULshift(a, n) ==
    UOfBits(List([p \in 1..(8 * Len(a)) |->
                    IF p + n <= 8 * Len(a) THEN UBit(a, p + n) ELSE 0]))

\* BaseUint.__rshift__: cls(value >> n)
URshift(a, n) ==
    UOfBits(List([p \in 1..(8 * Len(a)) |-> IF p - n >= 1 THEN UBit(a, p - n) ELSE 0]))

\* BaseUint.rotl: distance = n % bit_count; (value >> (bit_count - distance)
\* | value << distance) & max_value
URotl(a, n) ==
    LET W        == 8 * Len(a)
        distance == n % W
    IN  UOfBits(List([p \in 1..W |-> UBit(a, ((p - 1 + distance) % W) + 1)]))

\* BaseUint.rotr: distance = n % bit_count; (value >> distance
\* | value << (bit_count - distance)) & max_value
URotr(a, n) ==
    LET W        == 8 * Len(a)
        distance == n % W
    IN  UOfBits(List([p \in 1..W |-> UBit(a, ((p - 1 + W - distance) % W) + 1)]))

\* getattr(word, operation)(distance)
UShiftRotate(operation, a, n) ==
    CASE operation = "__lshift__" -> ULshift(a, n)
      [] operation = "__rshift__" -> URshift(a, n)
      [] operation = "rotl"       -> URotl(a, n)
      [] operation = "rotr"       -> URotr(a, n)

\* validate_unary_operand: the exception it raises, "none" if it returns;
\* distance is << >> for None and << n >> for the integer n
validate_unary_operand(mv, domain, distance) ==
    IF mv.domain # domain THEN "ValueError"
    ELSE IF distance # << >> /\ distance[1] # 0 /\ distance[1] < 1 THEN "ValueError"
    ELSE "none"

\* __invert__ after the validation: the object self afterwards
invert(mv) == [mv EXCEPT !.masked_value = UNot(@)]

\* _shift_rotate_helper after the validation: the object self afterwards
shift_rotate(mv, operation, distance) ==
    [mv EXCEPT !.masked_value = UShiftRotate(operation, @, distance),
               !.masks = List([index \in 1..Len(mv.masks) |->
                                 UShiftRotate(operation, mv.masks[index], distance)])]

\* the unary operators of BaseMaskedUint
UnaryOperators == { "__invert__", "__lshift__", "__rshift__", "rotl", "rotr" }

\* the distances handed to the shifts and rotations
UnaryDistances == { -1, 0, 1, 3, 8 }

\* the arguments of a unary operator: none for ~x, the distance otherwise
UnaryArguments(op) ==
    IF op = "__invert__" THEN { << >> } ELSE { << n >> : n \in UnaryDistances }

\* a unary operator on the object self: the exception raised, the object self
\* afterwards, and the object the operator returns ("self": the operand itself)
unary_operation(op, mv, distance) ==
    IF validate_unary_operand(mv, "BOOLEAN", distance) # "none"
    THEN [ raised   |-> validate_unary_operand(mv, "BOOLEAN", distance),
           self     |-> mv,
           returned |-> "none" ]
    ELSE [ raised   |-> "none",
           self     |-> IF op = "__invert__" THEN invert(mv)
                        ELSE shift_rotate(mv, op, distance[1]),
           returned |-> "self" ]

\* one masked object x, and a deep copy of it kept aside
UnaryInit ==
    /\ tier \in { 256 }
    /\ key = << >> /\ nonce = << >> /\ context = << >> /\ keygen = << >>
    /\ block_counter = 0
    /\ rnd = NoRnd
    /\ enc = NoEnc
    /\ pc = "unary"
    /\ result = [ raised |-> "none", returned |-> "none", expr |-> << >> ]
    /\ call = [ op |-> "none", distance |-> << >> ]
    /\ \E bits \in OperandBits, domain \in Domains, order \in 1..MaxOrder, seed \in Seeds :
          \E value \in ValueSamples(bits) :
             loc = [ x    |-> MaskedUint(bits, value, order, domain,
                                  get_random_uints([seed |-> seed, pos |-> 0],
                                                   bits, order).uints),
                     copy |-> MaskedUint(bits, value, order, domain,
                                  get_random_uints([seed |-> seed, pos |-> 0],
                                                   bits, order).uints) ]

\* y = ~x, y = x << n, y = x >> n, y = x.rotl(n), y = x.rotr(n)
UnaryOperation ==
    /\ pc = "unary"
    /\ \E op \in UnaryOperators :
          \E distance \in UnaryArguments(op) :
             /\ call' = [ op |-> op, distance |-> distance ]
             /\ loc' = [loc EXCEPT !.x = unary_operation(op, loc.x, distance).self]
             /\ result' = [ raised   |-> unary_operation(op, loc.x, distance).raised,
                            returned |-> unary_operation(op, loc.x, distance).returned,
                            expr     |-> << >> ]
    /\ pc' = "unary done"
    /\ UNCHANGED << tier, key, nonce, context, keygen, block_counter, rnd, enc >>

\* x ^ y with the y of x ^ x.rotl(n) and of m ^= m << n: the left operand is
\* the object x, the right operand the object the unary operator returned
XorWithReturned ==
    /\ pc = "unary done"
    /\ result.raised = "none"
    /\ result' = [result EXCEPT !.expr = shares(xor_add_sub(loc.x, loc.x, "xor"))]
    /\ pc' = "expression done"
    /\ UNCHANGED << tier, key, nonce, context, keygen, block_counter, call, loc, rnd, enc >>

UnaryNext == UnaryOperation \/ XorWithReturned

UnarySpec == UnaryInit /\ [][UnaryNext]_vars

----------------------------------------------------------------------------
(* Properties: shared vocabulary                                            *)

\* the call `op` has run to its end (returned or raised)
CallEnded(op) == pc = "idle" /\ call.op = op /\ result.op = op

\* T = N * 16 as the documentation states it for the two tiers
TierBytes == IF tier = 256 THEN 32 ELSE 64

\* the receiver's six values, each next to the sender's
Pairs ==
    << << key, enc.key >>, << nonce, enc.nonce >>, << context, enc.context >>,
       << call.text, enc.ciphertext >>, << call.header, enc.header >>,
       << call.auth_tag, enc.tag >> >>

\* b is a with exactly one bit flipped
OneBitFlip(a, b) ==
    /\ Len(a) = Len(b)
    /\ \E i \in 1..Len(a) :
          /\ Xor8(a[i], b[i]) \in { 1, 2, 4, 8, 16, 32, 64, 128 }
          /\ \A j \in 1..Len(a) : j # i => a[j] = b[j]

\* 1-based index of the byte in which a and b differ
FlipIndex(a, b) == CHOOSE i \in 1..Len(a) : a[i] # b[i]

\* exactly the f-th of the six values has one bit flipped, the others are the sender's
Tampered(f) ==
    /\ OneBitFlip(Pairs[f][1], Pairs[f][2])
    /\ \A g \in 1..6 : g # f => Pairs[g][1] = Pairs[g][2]

\* the flipped bit of the f-th value lies in bytes the cipher reads: all of
\* ciphertext, header and tag, the first 8 words of key and nonce, the first
\* 16 words of context
Consumed(f) ==
    CASE f \in { 1, 2 } -> FlipIndex(Pairs[f][1], Pairs[f][2]) <= 8 * (TierBytes \div 8)
      [] f = 3          -> FlipIndex(Pairs[f][1], Pairs[f][2]) <= 16 * (TierBytes \div 8)
      [] OTHER          -> TRUE

\* a decrypt has ended, and it and the encryption both began on a cipher as
\* constructed (block_counter 0)
DecryptedMessage ==
    /\ CallEnded("decrypt")
    /\ enc.valid
    /\ enc.start_counter = 0
    /\ call.start_counter = 0

\* the receiver used the sender's six values
SameSix == \A g \in 1..6 : Pairs[g][1] = Pairs[g][2]

----------------------------------------------------------------------------
(* C1                                                                       *)

\* C1: round trip. Whenever decrypt is given the ciphertext, header and tag an
\* encrypt call returned, on a cipher built from the same (key, nonce,
\* context), it returns exactly the plaintext that was encrypted: for every
\* encrypt call that returned, whatever the cipher object had done before.
C1_RoundTrip ==
    (CallEnded("decrypt") /\ enc.valid /\ SameSix)
        => /\ result.status = "ok"
           /\ result.returned
           /\ result.plaintext = enc.plaintext

\* the round trip of the calls that both began with block_counter = 0
C1_RoundTripFromZero ==
    (DecryptedMessage /\ SameSix)
        => /\ result.status = "ok"
           /\ result.returned
           /\ result.plaintext = enc.plaintext

\* an encrypt call that began with a block_counter an earlier, failed call
\* left behind has returned, and a decrypt of its output on a new cipher of
\* the same (key, nonce, context) has ended
C1_Witness ==
    /\ CallEnded("decrypt") /\ enc.valid /\ SameSix
    /\ enc.start_counter > 0
    /\ call.start_counter = 0
    /\ Len(enc.plaintext) > 0

----------------------------------------------------------------------------
(* C2                                                                       *)

\* C2: decrypt returns a plaintext only when the tag it recomputed equals the
\* auth_tag it was given; when the recomputed tag differs the call ends in
\* AuthFailure and returns nothing, although plaintext had been recovered.
C2_TagGate ==
    CallEnded("decrypt")
        => /\ result.returned
                => /\ loc.new_auth_tag # << >>
                   /\ loc.new_auth_tag = call.auth_tag
                   /\ result.plaintext = loc.out
           /\ (loc.new_auth_tag # << >> /\ loc.new_auth_tag # call.auth_tag)
                => /\ result.status = "AuthFailure"
                   /\ ~result.returned
                   /\ result.plaintext = << >>

C2_Witness ==
    /\ CallEnded("decrypt")
    /\ loc.new_auth_tag # << >>
    /\ loc.new_auth_tag # call.auth_tag
    /\ loc.out # << >>
    /\ result.status = "AuthFailure"
    /\ ~result.returned

----------------------------------------------------------------------------
(* C3                                                                       *)

\* C3 as stated: starting from values for which decrypt succeeds, a flip of
\* any single bit of exactly one of key, nonce, context, ciphertext, header
\* or tag makes decrypt end in AuthFailure.
C3_AnyBit ==
    (DecryptedMessage /\ \E f \in 1..6 : Tampered(f))
        => result.status = "AuthFailure"

\* C3 as amended: the same for every bit of ciphertext, header and tag, and
\* for the bits of key, nonce and context that lie in the bytes the keygen
\* reads (the first 8 words of key and nonce, the first 16 words of context).
C3_TagSensitivity ==
    (DecryptedMessage /\ \E f \in 1..6 : Tampered(f) /\ Consumed(f))
        => result.status = "AuthFailure"

C3_Witness ==
    /\ DecryptedMessage
    /\ Tampered(1) /\ Consumed(1)
    /\ Len(key) > 8 * (TierBytes \div 8)
    /\ result.status = "AuthFailure"

----------------------------------------------------------------------------
(* C4                                                                       *)

\* C4: a call whose text or header length is not a multiple of T ends in
\* InvalidInput, and it does so before any key derivation and before any AES
\* round: no derive_keys call, no round step, block_counter as it was.
C4_InputValidation ==
    (call.op # "none"
        /\ (Len(call.text) % TierBytes # 0 \/ Len(call.header) % TierBytes # 0))
        => /\ pc = "idle"
           /\ result.op = call.op
           /\ result.status = "InvalidInput"
           /\ ~result.returned
           /\ loc.kdf = << >>
           /\ rnd.log = << >>
           /\ block_counter = call.start_counter

C4_Witness ==
    /\ CallEnded("decrypt")
    /\ Len(call.text) % TierBytes = 0
    /\ Len(call.header) % TierBytes # 0
    /\ result.status = "InvalidInput"
    /\ loc.kdf = << >>

----------------------------------------------------------------------------
(* C5                                                                       *)

\* C5: when an encrypt or decrypt call has returned, block_counter is 0,
\* however many groups were processed and whatever the counter was before.
C5_CounterReset ==
    (pc = "idle" /\ result.returned) => block_counter = 0

C5_Witness ==
    /\ pc = "idle"
    /\ result.returned
    /\ call.start_counter > 0
    /\ Len(loc.kdf) >= 3
    /\ block_counter = 0

----------------------------------------------------------------------------
(* C6                                                                       *)

\* C6: a derive_keys call leaves the keygen it is called on as it was: every
\* step that makes such a call (it adds an entry to loc.kdf) keeps keygen,
\* with its state words, knc, key, nonce and context, for every counter and
\* domain and for call after call.
C6_KeygenPurity ==
    [][Len(loc'.kdf) > Len(loc.kdf) => keygen' = keygen]_vars

C6_Witness ==
    /\ Len(loc.kdf) >= 3
    /\ loc.kdf[1][2] = "MSG" /\ loc.kdf[Len(loc.kdf)][2] = "CHK"
    /\ loc.kdf[Len(loc.kdf)][1] > 0
    /\ keygen = digest_context(tier, BaseBlake(tier, key, nonce, context))

----------------------------------------------------------------------------
(* C7                                                                       *)

\* C7: for both tiers and the block states of every group in every round,
\* exchange_columns followed by exchange_columns with inverse = True gives
\* back every lane's 16 bytes.
C7_ExchangeInvolution ==
    rnd.blocks # << >>
        => States(exchange_columns(tier, exchange_columns(tier, rnd.blocks, FALSE), TRUE))
              = States(rnd.blocks)

C7_Witness ==
    /\ tier = 512
    /\ rnd.blocks # << >>
    /\ Len(rnd.log[1]) > 0
    /\ rnd.log[1][Len(rnd.log[1])][1] = "exchange_columns"
    /\ \A i, j \in 1..Len(rnd.blocks) :
          i # j => rnd.blocks[i].state # rnd.blocks[j].state
    /\ States(exchange_columns(tier, rnd.blocks, FALSE)) # States(rnd.blocks)
    /\ States(exchange_columns(tier, exchange_columns(tier, rnd.blocks, FALSE), TRUE))
          = States(rnd.blocks)

----------------------------------------------------------------------------
(* C8                                                                       *)

\* C8: whenever exchange_columns is about to be called, in encryption and in
\* decryption, all lanes of the group stand at the same round boundary: they
\* have run the same steps with the same round keys and their generators are
\* at the same place.
C8_Lockstep ==
    pc = "exchange"
        => \A i, j \in 1..Len(rnd.blocks) :
              /\ rnd.log[i] = rnd.log[j]
              /\ rnd.blocks[i].pos = rnd.blocks[j].pos
              /\ rnd.blocks[i].i = rnd.blocks[j].i

C8_Witness ==
    /\ pc = "exchange"
    /\ rnd.inverse
    /\ Len(rnd.blocks) = 4
    /\ Len(rnd.log[1]) > 10
    /\ \A i \in 1..Len(rnd.blocks) : rnd.log[i] = rnd.log[1]

----------------------------------------------------------------------------
(* C9                                                                       *)

\* position in a lane's log of add_round_key(i), the last step of round i
ArkAt(log, i) == CHOOSE p \in 1..Len(log) : log[p] = << "add_round_key", i >>

\* number of exchange_columns calls logged strictly between positions a and b
Exchanges(log, a, b) ==
    Cardinality({ p \in (a + 1)..(b - 1) : log[p][1] = "exchange_columns" })

\* a group has left run_encryption_rounds
EncryptedGroup == pc = "ret" /\ ~rnd.inverse

\* C9 as stated: between any two consecutive rounds of an encrypted group
\* (add_round_key(0), the intermediate rounds 1..9, the final round 10)
\* exactly one exchange_columns call occurs.
C9_OneBetweenAll ==
    EncryptedGroup
        => \A l \in 1..Len(rnd.log) : \A i \in 0..9 :
              Exchanges(rnd.log[l], ArkAt(rnd.log[l], i), ArkAt(rnd.log[l], i + 1)) = 1

\* C9 as amended: exactly one exchange_columns call occurs before each of the
\* 9 intermediate rounds (after add_round_key(0) and after rounds 1..8), none
\* between round 9 and the final round, and one after the final round.
C9_ExchangePlacement ==
    EncryptedGroup
        => \A l \in 1..Len(rnd.log) :
              LET log == rnd.log[l]
              IN  /\ \A i \in 0..8 :
                        Exchanges(log, ArkAt(log, i), ArkAt(log, i + 1)) = 1
                  /\ Exchanges(log, ArkAt(log, 9), ArkAt(log, 10)) = 0
                  /\ Exchanges(log, ArkAt(log, 10), Len(log) + 1) = 1
                  /\ Exchanges(log, 0, Len(log) + 1) = 10

C9_Witness ==
    /\ EncryptedGroup
    /\ rnd.domain = "MSG"
    /\ Len(rnd.log) = 4
    /\ Exchanges(rnd.log[4], ArkAt(rnd.log[4], 9), ArkAt(rnd.log[4], 10)) = 0
    /\ Exchanges(rnd.log[4], 0, Len(rnd.log[4]) + 1) = 10

----------------------------------------------------------------------------
(* C10                                                                      *)

\* C10: encrypt returns a ciphertext as long as the plaintext and a tag of
\* N * 16 bytes (32 for AESBlake256, 64 for AESBlake512); decrypt returns a
\* plaintext as long as the ciphertext.
C10_LengthPreservation ==
    (pc = "idle" /\ result.returned)
        => IF result.op = "encrypt"
           THEN /\ Len(result.ciphertext) = Len(call.text)
                /\ Len(result.tag) = TierBytes
           ELSE Len(result.plaintext) = Len(call.text)

C10_Witness ==
    /\ pc = "idle"
    /\ result.returned
    /\ result.op = "encrypt"
    /\ tier = 512
    /\ Len(call.text) > 0
    /\ Len(result.ciphertext) = Len(call.text)
    /\ Len(result.tag) = 64

----------------------------------------------------------------------------
(* C11                                                                      *)

\* N, the number of lanes of a group
Lanes == TierBytes \div 16

\* encrypt is at the end of the body of its text loop for group loc.gi
EncryptedTextGroup == pc = "ret" /\ rnd.ret = "text" /\ call.op = "encrypt"

\* C11: wire format. Each text group of encrypt appends its T bytes behind
\* those of the groups before it and the block counter goes up by one, so the
\* groups lie in increasing counter order; inside group g the 16 bytes at
\* offset g*T + k*16 are the final state of lane k; and what encrypt returns
\* is these bytes.
C11_WireFormat ==
    /\ [][ (EncryptedTextGroup /\ pc' = "text")
              => /\ block_counter' = block_counter + 1
                 /\ Len(loc'.out) = (loc.gi + 1) * TierBytes
                 /\ Slice(loc'.out, 0, loc.gi * TierBytes) = loc.out
                 /\ \A k \in 0..(Lanes - 1) :
                       Slice(loc'.out, loc.gi * TierBytes + k * 16,
                             loc.gi * TierBytes + k * 16 + 16)
                           = At(rnd.blocks, k).state ]_vars
    /\ []((CallEnded("encrypt") /\ result.returned) => result.ciphertext = loc.out)

\* encrypt has returned a ciphertext of two groups of four lanes
C11_Witness ==
    /\ CallEnded("encrypt")
    /\ result.returned
    /\ tier = 512
    /\ Len(result.ciphertext) = 2 * TierBytes
    /\ loc.gi = 2


----------------------------------------------------------------------------
(* C12                                                                      *)

\* the call of the worker-pool variant has ended as the sequential call
\* ended with `sequential`
EndedAs(sequential) ==
    /\ result = sequential.result
    /\ block_counter = sequential.block_counter

\* C12: parallel equals sequential. When a call of the worker-pool variant
\* has ended, whatever the order in which its workers ended, it has returned
\* or raised exactly what encrypt / decrypt of BaseAESBlake return or raise on
\* a cipher with the same keygen and block_counter and the same inputs (the
\* same ciphertext or plaintext, the same tag), the block counter is where
\* the sequential call leaves it, and that is 0 when the call returned.
C12_ParallelEqualsSequential ==
    (pc = "idle" /\ result.op # "none")
        => /\ EndedAs(run_call(tier, keygen, call.start_counter, call.op,
                               call.text, call.header, call.auth_tag))
           /\ result.returned => block_counter = 0

\* an encryption of two groups by the pool has returned, in which the worker
\* of a later group ended before the worker of an earlier one
C12_Witness ==
    /\ pc = "idle" /\ result.op = "encrypt" /\ result.returned
    /\ Len(result.ciphertext) = 2 * TierBytes
    /\ "encrypt" \in loc.overtaken

----------------------------------------------------------------------------
(* C13                                                                      *)

\* the encrypt sequence of aes1 has been run to its end and its output read
Aes1Ended == pc \in { "aes2", "vector done" }

\* C13: AES reference equivalence. An AES block given the 11 round keys of
\* the AES-128 key schedule of the secret key, whose encrypt sequence is run
\* to its end with no column exchange, holds the AES-128 encryption of the
\* plaintext (3925841d02dc09fbdc118597196a0b32 for the first vector); a block
\* built from that output with the same round keys, whose decrypt sequence
\* is run to its end, holds the plaintext again.
C13_AESReference ==
    /\ pc \in { "aes1", "aes2", "vector done" } => Len(rnd.blocks[1].round_keys) = 11
    /\ Aes1Ended => result.ciphertext = call.auth_tag
    /\ pc = "vector done" => result.plaintext = call.text

\* the first vector of the test has gone through encrypt and decrypt
C13_Witness ==
    /\ pc = "vector done"
    /\ call.text = ExampleVectors[1].plaintext
    /\ key = ExampleVectors[1].secret_key
    /\ result.ciphertext = ExampleVectors[1].expected_ct
    /\ result.plaintext = call.text

----------------------------------------------------------------------------
(* C14                                                                      *)

\* the objects hold what __init__ and refresh_masks left: no btoa yet
Unconverted == pc \in { "masked", "masked done" } /\ ~loc.converted

\* C14: masking round-trip. For each width, domain and order and each random
\* source, an object built from a value v of that width holds exactly `order`
\* masks and unmask() gives v, right after its construction and again after
\* refresh_masks() drew new random words.
C14_MaskingRoundTrip ==
    Unconverted =>
        \A k \in 1..2 :
            /\ Len(loc.mvs[k].masks) = call.order
            /\ unmask(loc.mvs[k]) = loc.values[k]

\* an arithmetic-masked 64-bit value of order 2 has had its masks refreshed
\* with random words that are not zero
C14_Witness ==
    /\ Unconverted /\ loc.refreshed
    /\ call.bits = 64 /\ call.domain = "ARITHMETIC" /\ call.order = 2
    /\ loc.rng.seed = 3
    /\ loc.values[1] # Zeros(8)
    /\ unmask(loc.mvs[1]) = loc.values[1]

----------------------------------------------------------------------------
(* C15                                                                      *)

\* a binary operator of two boolean-masked objects has returned
BooleanOperatorReturned(op) ==
    pc = "masked done" /\ result.op = op /\ result.raised = "none"

\* C15: the masked boolean operators are homomorphic under unmask. For two
\* boolean-masked objects x and y of the same order and width and each random
\* source, unmask(x ^ y) = unmask(x) ^ unmask(y), unmask(x & y) = unmask(x) &
\* unmask(y) and unmask(x | y) = unmask(x) | unmask(y).
C15_BooleanHomomorphism ==
    /\ BooleanOperatorReturned("__xor__")
          => unmask(result.out) = UXor(unmask(loc.mvs[1]), unmask(loc.mvs[2]))
    /\ BooleanOperatorReturned("__and__")
          => unmask(result.out) = UAnd(unmask(loc.mvs[1]), unmask(loc.mvs[2]))
    /\ BooleanOperatorReturned("__or__")
          => unmask(result.out) = UOr(unmask(loc.mvs[1]), unmask(loc.mvs[2]))

\* x & y has returned for two different 32-bit values that are not zero, of
\* order 2, with random words that are not zero
C15_Witness ==
    /\ BooleanOperatorReturned("__and__")
    /\ call.bits = 32 /\ call.order = 2 /\ loc.rng.seed = 2
    /\ loc.values[1] # loc.values[2]
    /\ UAnd(loc.values[1], loc.values[2]) # Zeros(4)
    /\ unmask(result.out) = UAnd(loc.values[1], loc.values[2])

----------------------------------------------------------------------------
(* C16                                                                      *)

\* btoa() has returned on an object that was built boolean-masked
Converted == pc = "masked" /\ loc.converted /\ call.domain = "BOOLEAN"

\* the modular sum of the shares
SumOfShares(mv) == fold_masks("add", Head(shares(mv)), Tail(shares(mv)))

\* C16: btoa conversion. For each width and order and each random source,
\* btoa() on a boolean-masked v leaves share_count shares whose sum modulo
\* 2^width is v, the domain ARITHMETIC and the unmasking function add.
C16_BtoaConversion ==
    Converted =>
        /\ Len(shares(loc.mvs[1])) = call.order + 1
        /\ loc.mvs[1].share_count = call.order + 1
        /\ SumOfShares(loc.mvs[1]) = loc.values[1]
        /\ loc.mvs[1].domain = "ARITHMETIC"
        /\ loc.mvs[1].unmasking_fn = "add"
        /\ unmask(loc.mvs[1]) = loc.values[1]

\* a 64-bit value that is not zero, boolean-masked with order 2 and random
\* words that are not zero, has been converted
C16_Witness ==
    /\ Converted
    /\ call.bits = 64 /\ call.order = 2 /\ loc.rng.seed = 3
    /\ loc.values[1] = List([j \in 1..8 |-> (83 + 57 * j) % 256])
    /\ SumOfShares(loc.mvs[1]) = loc.values[1]

----------------------------------------------------------------------------
(* C17                                                                      *)

\* derive_keys has returned
DerivedKeys == pc = "kdf" /\ result.op = "derive_keys"

\* a round key of 16 bytes
IsRoundKey(rk) == Len(rk) = 16 /\ \A k \in 1..16 : rk[k] \in 0..255

\* C17: derive_keys output shape. derive_keys(key_count, counter, domain)
\* returns N lists of round keys, 2 in the 32-bit tier and 4 in the 64-bit
\* tier, each of exactly key_count round keys of 16 bytes, for each
\* key_count >= 1, counter and domain.
C17_DeriveKeysShape ==
    DerivedKeys =>
        /\ Len(result.keys) = (IF tier = 256 THEN 2 ELSE 4)
        /\ \A k \in 1..Len(result.keys) :
              /\ Len(result.keys[k]) = call.key_count
              /\ \A r \in 1..Len(result.keys[k]) : IsRoundKey(result.keys[k][r])

\* the 64-bit tier has derived a single round key per lane under the CHK
\* domain for a counter that is not zero
C17_Witness ==
    /\ DerivedKeys /\ tier = 512
    /\ call.key_count = 1 /\ call.domain = "CHK" /\ call.counter = 65536
    /\ Len(result.keys) = 4
    /\ \A k \in 1..4 : Len(result.keys[k]) = 1 /\ IsRoundKey(result.keys[k][1])

----------------------------------------------------------------------------
(* C18                                                                      *)

\* the derive_keys calls of groups first..(first + n - 1) under one domain
ScheduleOf(first, n, domain) == List([g \in 1..n |-> << first + g - 1, domain >>])

\* the derive_keys calls of a call with P text groups and H header groups
\* that began with block_counter 0
Schedule(P, H) ==
    ScheduleOf(0, P, "MSG") \o ScheduleOf(P, H, "HDR") \o << << P + H, "CHK" >> >>

\* a call that began with block_counter 0 went through compute_auth_tag
RanFromZero ==
    /\ pc = "idle" /\ call.op \in { "encrypt", "decrypt" } /\ result.op = call.op
    /\ result.status \in { "ok", "AuthFailure" }
    /\ call.start_counter = 0

\* C18: counter and domain schedule. In an encrypt or decrypt call that
\* begins with block_counter 0 and has P text groups and H header groups,
\* derive_keys is called once per group and each call gives every lane 11
\* round keys: with (g, MSG) for the text groups g = 0..P-1, then (P + h, HDR)
\* for the header groups h = 0..H-1, then once with (P + H, CHK). The counter
\* goes up by exactly 1 after each text or header group, and no counter value
\* is used twice in the call.
C18_CounterSchedule ==
    /\ [](RanFromZero =>
            /\ loc.kdf = Schedule(Len(loc.groups), Len(loc.hgroups))
            /\ \A a, b \in 1..Len(loc.kdf) : a # b => loc.kdf[a][1] # loc.kdf[b][1])
    /\ [][ /\ Len(loc'.kdf) > Len(loc.kdf)
              => /\ loc'.kdf = Append(loc.kdf, << block_counter, rnd'.domain >>)
                 /\ \A k \in 1..Len(rnd'.blocks) : Len(rnd'.blocks[k].round_keys) = 11
           /\ (pc = "ret" /\ rnd.ret \in { "text", "hdr" })
              => block_counter' = block_counter + 1 ]_vars

\* a decrypt of two text groups and two header groups has ended
C18_Witness ==
    /\ RanFromZero /\ call.op = "decrypt" /\ result.returned
    /\ Len(loc.groups) = 2 /\ Len(loc.hgroups) = 2
    /\ loc.kdf = << << 0, "MSG" >>, << 1, "MSG" >>, << 2, "HDR" >>, << 3, "HDR" >>,
                    << 4, "CHK" >> >>

----------------------------------------------------------------------------
(* C19                                                                      *)

\* a group has left run_decryption_rounds
DecryptedGroup == pc = "ret" /\ rnd.inverse

\* the driver's exchange_columns(aes_blocks, inverse=True) in a lane's log
InvExchange == << "inv_exchange_columns", 0 >>

\* the positions of a lane's log at which the driver exchanged
InvExchangesAt(log) == { p \in 1..Len(log) : log[p] = InvExchange }

\* a lane's log without the exchanges of the driver
RECURSIVE LaneSteps(_)
LaneSteps(log) ==
    IF log = << >> THEN << >>
    ELSE IF Head(log) = InvExchange THEN LaneSteps(Tail(log))
    ELSE << Head(log) >> \o LaneSteps(Tail(log))

\* add_round_key(i); inv_mix_columns; inv_shift_rows; inv_sub_bytes for
\* i = first down to 1, with the exchange behind each turn if `exchanging`
RECURSIVE InverseRounds(_, _)
InverseRounds(first, exchanging) ==
    IF first < 1 THEN << >>
    ELSE << << "add_round_key", first >>, << "inv_mix_columns", first >>,
            << "inv_shift_rows", first >>, << "inv_sub_bytes", first >> >>
         \o (IF exchanging THEN << InvExchange >> ELSE << >>)
         \o InverseRounds(first - 1, exchanging)

\* the steps of a lane's decrypt sequence, with or without the exchanges
DecryptOrder(exchanging) ==
    (IF exchanging THEN << InvExchange >> ELSE << >>)
    \o << << "add_round_key", 10 >>, << "inv_shift_rows", 10 >>, << "inv_sub_bytes", 10 >> >>
    \o InverseRounds(9, exchanging)
    \o << << "add_round_key", 0 >> >>

\* C19 as stated: in a decrypted group each inverse column exchange takes
\* place right after inv_mix_columns and right before the inv_shift_rows of
\* the same iteration.
C19_ExchangeInsideIteration ==
    DecryptedGroup
        => \A l \in 1..Len(rnd.log) : \A p \in InvExchangesAt(rnd.log[l]) :
              /\ p > 1 /\ p < Len(rnd.log[l])
              /\ rnd.log[l][p - 1][1] = "inv_mix_columns"
              /\ rnd.log[l][p + 1][1] = "inv_shift_rows"
              /\ rnd.log[l][p + 1][2] = rnd.log[l][p - 1][2]

\* C19 as amended: decryption step order. A lane's decrypt sequence runs
\* add_round_key(10); inv_shift_rows; inv_sub_bytes; then for i = 9 down to
\* 1: add_round_key(i); inv_mix_columns; inv_shift_rows; inv_sub_bytes; and
\* finally add_round_key(0). The driver's inverse exchanges take place before
\* add_round_key(10) and behind the inv_sub_bytes of each of the iterations
\* 9..1, ten per group, none of them inside an iteration.
C19_DecryptionOrder ==
    DecryptedGroup
        => \A l \in 1..Len(rnd.log) :
              /\ LaneSteps(rnd.log[l]) = DecryptOrder(FALSE)
              /\ rnd.log[l] = DecryptOrder(TRUE)
              /\ Cardinality(InvExchangesAt(rnd.log[l])) = 10

\* a text group of four lanes has been decrypted; the first entry of the log
\* of its last lane is an exchange, and an exchange follows inv_sub_bytes(9)
C19_Witness ==
    /\ DecryptedGroup /\ rnd.domain = "MSG" /\ Len(rnd.log) = 4
    /\ rnd.log[4][1] = InvExchange
    /\ rnd.log[4][8] = << "inv_sub_bytes", 9 >>
    /\ rnd.log[4][9] = InvExchange
    /\ rnd.log[4][Len(rnd.log[4])] = << "add_round_key", 0 >>

----------------------------------------------------------------------------
(* C20                                                                      *)

\* an encrypt or decrypt call went through compute_auth_tag
TagComputed ==
    /\ pc = "idle" /\ call.op \in { "encrypt", "decrypt" } /\ result.op = call.op
    /\ result.status \in { "ok", "AuthFailure" }

\* the plaintext of the call that ended: the argument of encrypt, the bytes
\* decrypt recovered
PlaintextOfCall == IF call.op = "encrypt" THEN call.text ELSE loc.out

\* the 16-byte chunks of data, grouped by lanes
GroupsOf(t, data) == group_by(split_bytes(data, aes_block_bytes), aes_blocks_count(t))

\* the XOR of lane k's 16-byte values of all groups
RECURSIVE XorOfLane(_, _)
XorOfLane(groups, k) ==
    IF groups = << >> THEN Zeros(16)
    ELSE XorBytes(Head(groups)[k], XorOfLane(Tail(groups), k))

\* the header groups, each encrypted under HDR, the first at counter `first`
RECURSIVE EncryptedHeader(_, _, _, _)
EncryptedHeader(t, kg, first, hgroups) ==
    IF hgroups = << >> THEN << >>
    ELSE << States(run_rounds(t, kg, first, Head(hgroups), "HDR", FALSE).blocks) >>
         \o EncryptedHeader(t, kg, first + 1, Tail(hgroups))

\* lane by lane E_CHK(plaintext_chk)[k] XOR header_chk[k], concatenated
TagOfLanes(t, echk, ehdr) ==
    Flatten(List([k \in 1..aes_blocks_count(t) |->
                     XorBytes(echk[k], XorOfLane(ehdr, k))]))

\* the tag of P text groups and H header groups, the text groups having
\* taken the counters first..(first + P - 1)
TagOfGroups(t, kg, first, pgroups, hgroups) ==
    TagOfLanes(t,
               States(run_rounds(t, kg, first + Len(pgroups) + Len(hgroups),
                                 List([k \in 1..aes_blocks_count(t) |->
                                          XorOfLane(pgroups, k)]),
                                 "CHK", FALSE).blocks),
               EncryptedHeader(t, kg, first + Len(pgroups), hgroups))

\* the tag of a plaintext and a header
TagOf(t, kg, first, plaintext, header) ==
    TagOfGroups(t, kg, first, GroupsOf(t, plaintext), GroupsOf(t, header))

\* a decrypt was given what the encrypt call returned, on a cipher built from
\* the same (key, nonce, context), and recovered the plaintext
SameMessage ==
    /\ TagComputed /\ call.op = "decrypt" /\ enc.valid
    /\ key = enc.key /\ nonce = enc.nonce /\ context = enc.context
    /\ call.text = enc.ciphertext /\ call.header = enc.header
    /\ loc.out = enc.plaintext

\* C20: tag construction. The tag of every encrypt and decrypt call is the
\* concatenation over the lanes k of E_CHK(plaintext_chk)[k] XOR header_chk[k]:
\* plaintext_chk[k] the XOR of lane k's plaintext chunks of all groups (in
\* decrypt of the recovered plaintext), header_chk[k] the XOR of lane k's
\* HDR-encrypted header blocks, E_CHK one group encryption of the plaintext
\* checksums under CHK at counter P + H; encrypt and decrypt compute the same
\* tag from the same plaintext and header.
C20_TagConstruction ==
    /\ TagComputed
          => loc.new_auth_tag = TagOf(tier, keygen, 0, PlaintextOfCall, call.header)
    /\ SameMessage => loc.new_auth_tag = enc.tag

\* the tag construction of the calls that began with block_counter = 0, and
\* that of every call with the counters counted from the one it began with
C20_TagConstructionFromCounter ==
    /\ TagComputed
          => loc.new_auth_tag
                = TagOf(tier, keygen, call.start_counter, PlaintextOfCall, call.header)
    /\ (SameMessage /\ enc.start_counter = call.start_counter)
          => loc.new_auth_tag = enc.tag

\* an encrypt call of two text groups and two header groups that began with
\* the block_counter a failed call left behind has returned its tag: the one
\* built with the CHK group at counter start + P + H, not the one built at P + H
C20_Witness ==
    /\ TagComputed /\ call.op = "encrypt" /\ result.returned
    /\ call.start_counter > 0
    /\ Len(loc.groups) = 2 /\ Len(loc.hgroups) = 2
    /\ result.tag = TagOf(tier, keygen, call.start_counter, call.text, call.header)
    /\ result.tag # TagOf(tier, keygen, 0, call.text, call.header)

----------------------------------------------------------------------------
(* C21                                                                      *)

\* init_state_vector has returned
StateInitialized == pc = "isv" /\ call.op = "init_state_vector"

\* the bytes of a sequence in the opposite order
RECURSIVE Reversed(_)
Reversed(s) == IF s = << >> THEN << >> ELSE Reversed(Tail(s)) \o << Head(s) >>

\* x + y + carry of two numbers given by their bytes, lowest byte first,
\* dropping the carry out of the last byte
RECURSIVE SumOfDigits(_, _, _)
SumOfDigits(x, y, carry) ==
    IF x = << >> THEN << >>
    ELSE << (Head(x) + Head(y) + carry) % 256 >>
         \o SumOfDigits(Tail(x), Tail(y), (Head(x) + Head(y) + carry) \div 256)

\* (word + n) mod 2^W, word given by its W/8 bytes and n < 2^32 by its 4
\* bytes, both highest byte first
PlusMod(word, n) ==
    Reversed(SumOfDigits(Reversed(word),
                         Reversed(n) \o Zeros(Len(word) - 4), 0))

\* counter mod 2^32 and counter >> 32, each as 4 bytes
CounterLow  == Slice(to_bytes(call.counter), 4, 8)
CounterHigh == Slice(to_bytes(call.counter), 0, 4)

\* C21: init_state_vector layout. After init_state_vector(entropy, counter,
\* domain), for every 64-bit counter: words 0..3 are IV[0..3], word 4 + i is
\* (entropy[i] + counter mod 2^32) mod 2^W, word 8 + i is
\* (entropy[4 + i] + (counter >> 32)) mod 2^W for i = 0..3, and words 12..15
\* are IV[4..7] XOR domain_mask(domain), W the word width of the tier.
C21_StateVectorLayout ==
    StateInitialized
        => /\ Len(keygen.state) = 16
           /\ \A i \in 0..3 :
                /\ At(keygen.state, i) = At(ivs(tier), i)
                /\ to_bytes(At(keygen.state, 4 + i))
                      = PlusMod(to_bytes(At(call.entropy, i)), CounterLow)
                /\ to_bytes(At(keygen.state, 8 + i))
                      = PlusMod(to_bytes(At(call.entropy, 4 + i)), CounterHigh)
                /\ to_bytes(At(keygen.state, 12 + i))
                      = XorBytes(to_bytes(At(ivs(tier), 4 + i)),
                                 to_bytes(domain_mask(tier, call.domain)))

\* the 64-bit tier with a counter above 2^32 whose halves differ, an entropy
\* word that wraps, under a domain whose mask is not zero
C21_Witness ==
    /\ StateInitialized /\ tier = 512
    /\ call.counter = << 258, 772, 1286, 1800 >>
    /\ call.domain = "CHK"
    /\ At(call.entropy, 0) = << 65535, 65535, 65535, 65535 >>
    /\ At(keygen.state, 4) = << 0, 0, 1286, 1799 >>
    /\ At(keygen.state, 8) = << 0, 0, 258, 771 >>

----------------------------------------------------------------------------
(* C22                                                                      *)

\* run_encryption_rounds / run_decryption_rounds has returned to its caller
RoundsReturned == pc = "ret"

\* the chunks the caller handed to the rounds that returned
ChunksOfRounds ==
    CASE rnd.ret = "text" -> At(loc.groups, loc.gi)
      [] rnd.ret = "hdr"  -> At(loc.hgroups, loc.hi)
      [] rnd.ret = "chk"  -> loc.pchk

\* an encrypt call of at least two text groups has returned
EncryptedGroups ==
    /\ pc = "idle" /\ call.op = "encrypt" /\ result.op = "encrypt" /\ result.returned
    /\ Len(loc.groups) >= 2

\* bytes g * T .. (g + 1) * T - 1 of data, T the bytes of a group
GroupBytes(data, g) ==
    Slice(data, g * aes_total_bytes(tier), (g + 1) * aes_total_bytes(tier))

\* the plaintext of the call with the first and the last byte of group h changed
OtherPlaintext(h) ==
    FlipBit(FlipBit(call.text, h * aes_total_bytes(tier), 1),
            (h + 1) * aes_total_bytes(tier) - 1, 128)

\* what encrypt returns for the plaintext changed in group h, on a cipher
\* object as the call found it
OtherCiphertext(h) ==
    run_call(tier, keygen, call.start_counter, "encrypt", OtherPlaintext(h),
             call.header, << >>).result.ciphertext

\* group g of the ciphertext is the same and group h is another one when
\* the ciphertext is `other`
OnlyGroupChanged(other, g, h) ==
    /\ Len(other) = Len(result.ciphertext)
    /\ GroupBytes(other, g) = GroupBytes(result.ciphertext, g)
    /\ GroupBytes(other, h) # GroupBytes(result.ciphertext, h)

\* C22: group independence. The blocks run_encryption_rounds and
\* run_decryption_rounds return are those a function of the group's chunks,
\* the domain, block_counter and the keygen gives, whatever the call has done
\* before; and in encrypt the ciphertext bytes of group g stay the same when
\* the plaintext of another group h is changed.
C22_GroupIndependence ==
    /\ RoundsReturned
          => rnd.blocks = run_rounds(tier, keygen, block_counter, ChunksOfRounds,
                                     rnd.domain, rnd.inverse).blocks
    /\ EncryptedGroups
          => \A g, h \in 0..(Len(loc.groups) - 1) :
                g # h => OnlyGroupChanged(OtherCiphertext(h), g, h)

\* an encrypt call of two text groups has returned, and with another
\* plaintext in its group 0 only the bytes of group 0 of the ciphertext differ
C22_Witness ==
    /\ EncryptedGroups /\ Len(loc.groups) = 2 /\ tier = 512
    /\ OnlyGroupChanged(OtherCiphertext(0), 1, 0)
    /\ GroupBytes(OtherPlaintext(0), 1) = GroupBytes(call.text, 1)
    /\ GroupBytes(OtherPlaintext(0), 0) # GroupBytes(call.text, 0)

----------------------------------------------------------------------------
(* C23                                                                      *)

\* a binary operator was applied to two masked objects built apart
OperatorEnded == pc = "operands done" /\ result.op = call.op

\* the operands differ in order, domain or width, or one of them is not in
\* the domain of the operator
OperandsMismatch ==
    \/ loc.mvs[1].order # loc.mvs[2].order
    \/ loc.mvs[1].domain # loc.mvs[2].domain
    \/ loc.mvs[1].bits # loc.mvs[2].bits
    \/ loc.mvs[1].domain # (IF call.op \in { "__add__", "__sub__", "__mul__" }
                            THEN "ARITHMETIC" ELSE "BOOLEAN")

\* C23: masked operand checks. A binary masked operation (XOR, AND, OR, ADD,
\* SUB, MUL) whose operands differ in masking order, in domain or in width,
\* or whose domain is not the one the operator is defined for, ends in an
\* error and gives no result value.
C23_OperandChecks ==
    (OperatorEnded /\ OperandsMismatch)
        => /\ result.raised \in { "ValueError", "TypeError" }
           /\ result.out = << >>

\* a multiplication of two arithmetic-masked 32-bit objects of orders 1 and 2
\* has raised ValueError
C23_Witness ==
    /\ OperatorEnded /\ call.op = "__mul__"
    /\ loc.mvs[1].domain = "ARITHMETIC" /\ loc.mvs[2].domain = "ARITHMETIC"
    /\ loc.mvs[1].bits = 32 /\ loc.mvs[2].bits = 32
    /\ loc.mvs[1].order = 1 /\ loc.mvs[2].order = 2
    /\ result.raised = "ValueError" /\ result.out = << >>

----------------------------------------------------------------------------
(* C24                                                                      *)

\* the intermediate rounds first..last of encryption as a lane's log shows
\* them, each with the exchange that precedes it
RECURSIVE ForwardRounds(_, _)
ForwardRounds(first, last) ==
    IF first > last THEN << >>
    ELSE << << "exchange_columns", 0 >>,
            << "sub_bytes", first >>, << "shift_rows", first >>,
            << "mix_columns", first >>, << "add_round_key", first >> >>
         \o ForwardRounds(first + 1, last)

\* the steps of run_encryption_rounds on one lane, exchanges included
EncryptOrder ==
    << << "add_round_key", 0 >> >>
    \o ForwardRounds(1, 9)
    \o << << "sub_bytes", 10 >>, << "shift_rows", 10 >>, << "add_round_key", 10 >>,
          << "exchange_columns", 0 >> >>

\* the step that undoes a step
InverseOf(step) ==
    CASE step[1] = "add_round_key"    -> step
      [] step[1] = "sub_bytes"        -> << "inv_sub_bytes", step[2] >>
      [] step[1] = "shift_rows"       -> << "inv_shift_rows", step[2] >>
      [] step[1] = "mix_columns"      -> << "inv_mix_columns", step[2] >>
      [] step[1] = "exchange_columns" -> << "inv_exchange_columns", step[2] >>

\* a sequence of steps reversed, every step replaced by its inverse
RECURSIVE Mirrored(_)
Mirrored(steps) ==
    IF steps = << >> THEN << >>
    ELSE Mirrored(Tail(steps)) \o << InverseOf(Head(steps)) >>

\* the number of column exchanges, forward or inverse, in a lane's log
ExchangeCount(log) ==
    Cardinality({ p \in 1..Len(log) :
                    log[p][1] \in { "exchange_columns", "inv_exchange_columns" } })

\* the blocks run_encryption_rounds returned, handed with their round keys
\* to the loop of run_decryption_rounds
DecryptedAgain ==
    decryption_loop(tier, List([k \in 1..Len(rnd.blocks) |->
                                   AESBlock(rnd.blocks[k].state, rnd.blocks[k].round_keys)]))

\* C24: decryption mirrors encryption step by step. For one group the steps
\* of run_decryption_rounds, lane steps and inverse exchanges together, are
\* the steps of run_encryption_rounds reversed with every step replaced by
\* its inverse; both make 10 column exchanges for 11 round keys, each forward
\* exchange is undone by the inverse exchange at the mirrored position, and
\* so the decryption steps take the blocks of an encrypted group back to the
\* chunks it was made from.
C24_DecryptionMirrorsEncryption ==
    /\ EncryptedGroup
          => /\ \A l \in 1..Len(rnd.log) :
                   /\ rnd.log[l] = EncryptOrder
                   /\ ExchangeCount(rnd.log[l]) = 10
             /\ States(DecryptedAgain) = ChunksOfRounds
    /\ DecryptedGroup
          => \A l \in 1..Len(rnd.log) :
                /\ rnd.log[l] = Mirrored(EncryptOrder)
                /\ ExchangeCount(rnd.log[l]) = 10
                /\ \A p \in 1..Len(EncryptOrder) :
                      EncryptOrder[p][1] = "exchange_columns"
                         <=> rnd.log[l][Len(EncryptOrder) + 1 - p] = InvExchange

\* a text group of four lanes has been decrypted: 50 steps, the exchange
\* that follows the final round of encryption undone first
C24_Witness ==
    /\ DecryptedGroup /\ rnd.domain = "MSG" /\ Len(rnd.log) = 4
    /\ Len(rnd.log[1]) = 50
    /\ EncryptOrder[50] = << "exchange_columns", 0 >>
    /\ rnd.log[1][1] = InvExchange
    /\ rnd.log[1][2] = << "add_round_key", 10 >>
    /\ ExchangeCount(rnd.log[1]) = 10

----------------------------------------------------------------------------
(* C25                                                                      *)

\* an encrypt or decrypt call has ended with an error
CallFailed ==
    /\ pc = "idle" /\ call.op \in { "encrypt", "decrypt" } /\ result.op = call.op
    /\ ~result.returned
    /\ result.status \in { "InvalidInput", "EmptyData", "AuthFailure" }

\* C25: failure leaves the cipher reusable. Whenever encrypt or decrypt ends
\* with an error (a bad length, a tag mismatch, an error raised while the
\* text or header groups are processed), block_counter is 0 afterwards.
C25_FailureLeavesZero ==
    CallFailed => block_counter = 0

\* the failures that do leave block_counter at 0 on an object that began
\* with 0: a tag mismatch, a bad length, a text of no bytes
C25_FailuresBeforeOrAfterGroups ==
    (CallFailed /\ call.start_counter = 0
        /\ (result.status # "EmptyData" \/ Len(call.text) = 0))
        => block_counter = 0

\* an encrypt call on a cipher as constructed, with a text of two groups and
\* a header of no bytes, has raised inside compute_auth_tag and has left
\* block_counter at 2
C25_Witness ==
    /\ CallFailed /\ call.op = "encrypt" /\ result.status = "EmptyData"
    /\ call.start_counter = 0
    /\ Len(loc.groups) = 2 /\ Len(call.header) = 0
    /\ block_counter = 2

----------------------------------------------------------------------------
(* C26                                                                      *)

\* an encrypt call whose text and header lengths are multiples of T has ended
ValidLengthsEncrypted ==
    /\ CallEnded("encrypt")
    /\ Len(call.text) % TierBytes = 0 /\ Len(call.header) % TierBytes = 0

\* C26: the length rule is the only input restriction. Whenever len(text)
\* mod T = 0 and len(header) mod T = 0, a text or a header of no bytes
\* included, encrypt returns a (ciphertext, tag) pair and does not end in an
\* input error.
C26_LengthRuleOnly ==
    ValidLengthsEncrypted
        => /\ result.returned /\ result.status = "ok"
           /\ Len(result.ciphertext) = Len(call.text)
           /\ Len(result.tag) = TierBytes

\* encrypt returns for the lengths that are multiples of T and not 0, and
\* raises the ValueError of group_by when the text or the header has no bytes
C26_EmptyRejected ==
    ValidLengthsEncrypted
        => IF Len(call.text) > 0 /\ Len(call.header) > 0
           THEN /\ result.returned /\ result.status = "ok"
                /\ Len(result.ciphertext) = Len(call.text)
                /\ Len(result.tag) = TierBytes
           ELSE ~result.returned /\ result.status = "EmptyData"

\* an encrypt call with a text of no bytes and a header that has bytes has
\* raised before any key was derived
C26_Witness ==
    /\ ValidLengthsEncrypted
    /\ Len(call.text) = 0 /\ Len(call.header) > 0
    /\ ~result.returned /\ result.status = "EmptyData"
    /\ loc.kdf = << >>

----------------------------------------------------------------------------
(* C27                                                                      *)

\* an encrypt call has returned its ciphertext and tag
EncryptReturned ==
    /\ pc = "idle" /\ call.op = "encrypt" /\ result.op = "encrypt" /\ result.returned

\* other headers encrypt accepts: one bit of the header changed, other
\* bytes, one group only
OtherHeaders ==
    { FlipBit(call.header, 0, 1),
      FlipBit(call.header, Len(call.header) - 1, 128),
      Pattern(77, Len(call.header)),
      Pattern(200, TierBytes) } \ { call.header }

\* what encrypt returns for the same plaintext under the header h, on a
\* cipher object as the call found it
UnderHeader(h) ==
    run_call(tier, keygen, call.start_counter, "encrypt", call.text, h, << >>).result

\* C27: the header does not influence the ciphertext. For a cipher object in
\* one state and one plaintext, encrypt returns the same ciphertext bytes
\* under any two headers it accepts; only the tag may differ.
C27_HeaderNotInCiphertext ==
    EncryptReturned
        => \A h \in OtherHeaders :
              /\ UnderHeader(h).returned
              /\ UnderHeader(h).ciphertext = result.ciphertext

\* an encrypt call has returned, and under a header with one other bit the
\* ciphertext is the same and the tag is another one
C27_Witness ==
    /\ EncryptReturned /\ tier = 256 /\ call.start_counter = 0
    /\ FlipBit(call.header, 0, 1) # call.header
    /\ UnderHeader(FlipBit(call.header, 0, 1)).ciphertext = result.ciphertext
    /\ UnderHeader(FlipBit(call.header, 0, 1)).tag # result.tag

----------------------------------------------------------------------------
(* C28                                                                      *)

\* the four bytes of column c (0..3) of a block state
ColumnOf(state, c) == Slice(state, 4 * c, 4 * c + 4)

\* blocks whose byte p of lane l (both 0-based) is 16 * l + p, each byte of
\* the group another value
LabelledBlocks(t) ==
    List([l \in 1..aes_blocks_count(t) |->
            AESBlock(List([p \in 1..16 |-> 16 * (l - 1) + (p - 1)]), << >>)])

\* the lane byte p of output lane l of the labelled group came from, if it
\* came from position p of a lane, and -1 if it did not
SourceLane(out, l, p) ==
    IF At(At(out, l).state, p) % 16 = p THEN At(At(out, l).state, p) \div 16 ELSE 0 - 1

\* in the labelled group every output byte is the byte at the same position
\* of some lane, the four bytes of a column come from one lane, and for each
\* column the source lanes of the output lanes are all the lanes, each once
MovesWholeColumns(t, out) ==
    /\ Len(out) = aes_blocks_count(t)
    /\ \A l \in 0..(Len(out) - 1) : \A p \in 0..15 :
          /\ SourceLane(out, l, p) \in 0..(Len(out) - 1)
          /\ SourceLane(out, l, p) = SourceLane(out, l, 4 * (p \div 4))
    /\ \A c \in 0..3 :
          { SourceLane(out, l, 4 * c) : l \in 0..(Len(out) - 1) } = 0..(Len(out) - 1)

\* column by column the lanes after the call hold the columns of the lanes
\* before it, permuted, and the round keys are where they were
ColumnsPermuted(before, after) ==
    /\ Len(after) = Len(before)
    /\ \A c \in 0..3 :
          \E s \in Permutations(1..Len(before)) :
             \A l \in 1..Len(before) :
                ColumnOf(after[l].state, c) = ColumnOf(before[s[l]].state, c)
    /\ \A l \in 1..Len(before) : after[l].round_keys = before[l].round_keys

\* C28: exchange_columns only moves whole columns between lanes. For both
\* tiers and both directions every output byte at position p of a lane is the
\* input byte at position p of some lane, and for each column the map from
\* output lane to source lane is a bijection on the lanes: no input byte is
\* lost or duplicated.
C28_WholeColumns ==
    [][pc = "exchange"
          => /\ ColumnsPermuted(rnd.blocks, rnd'.blocks)
             /\ MovesWholeColumns(tier, exchange_columns(tier, LabelledBlocks(tier),
                                                         rnd.inverse))]_vars

\* the decryption driver of the 512 tier has made its first inverse exchange,
\* which moved bytes: lane 0 holds the second column of lane 3
C28_Witness ==
    /\ pc = "step" /\ rnd.inverse /\ tier = 512 /\ Len(rnd.blocks) = 4
    /\ rnd.log[1] = << InvExchange >>
    /\ exchange_columns(tier, rnd.blocks, FALSE) # rnd.blocks
    /\ ColumnOf(rnd.blocks[1].state, 1)
          = ColumnOf(exchange_columns(tier, rnd.blocks, FALSE)[4].state, 1)
    /\ SourceLane(exchange_columns(tier, LabelledBlocks(tier), TRUE), 0, 4) = 3

----------------------------------------------------------------------------
(* C29                                                                      *)

\* the loop of run_encryption_rounds / run_decryption_rounds is running
InRounds == pc \in { "step", "exchange" }

\* how often add_round_key(i) is in a lane's log
KeyUses(log, i) == Cardinality({ p \in 1..Len(log) : log[p] = << "add_round_key", i >> })

\* the turns of the while loop a lane's log shows: each turn makes one exchange
LoopTurns(log) == ExchangeCount(log)

\* C29: round driver termination. For a group whose lanes hold 11 round keys
\* each, the loops of run_encryption_rounds and run_decryption_rounds always
\* terminate, after exactly 10 iterations, and on exit every lane has applied
\* each of the 11 round keys exactly once, round 0 through round 10.
C29_DriverTermination ==
    /\ [](InRounds => \A l \in 1..Len(rnd.log) : LoopTurns(rnd.log[l]) <= 10)
    /\ [](RoundsReturned
            => \A l \in 1..Len(rnd.log) :
                  /\ Len(rnd.blocks[l].round_keys) = 11
                  /\ LoopTurns(rnd.log[l]) = 10
                  /\ \A i \in 0..10 : KeyUses(rnd.log[l], i) = 1
                  /\ Cardinality({ p \in 1..Len(rnd.log[l]) :
                                      rnd.log[l][p][1] = "add_round_key" }) = 11)
    /\ InRounds ~> RoundsReturned

\* the loop of run_decryption_rounds has ended for a group of the 256 tier:
\* 10 turns, add_round_key(0) the last step of each lane
C29_Witness ==
    /\ RoundsReturned /\ rnd.inverse /\ Len(rnd.log) = 2 /\ rnd.ret = "rounds"
    /\ LoopTurns(rnd.log[2]) = 10
    /\ KeyUses(rnd.log[2], 0) = 1 /\ KeyUses(rnd.log[2], 10) = 1
    /\ rnd.log[2][Len(rnd.log[2])] = << "add_round_key", 0 >>
    /\ ~rnd.keep_running

----------------------------------------------------------------------------
(* C30                                                                      *)

\* a unary operator has returned its object y
UnaryReturned == pc \in { "unary done", "expression done" } /\ result.raised = "none"

\* the shares the operator of the call makes of the shares of mv
SharesAfter(mv) == shares(unary_operation(call.op, mv, call.distance).self)

\* C30: masked shift, rotate and invert do not modify their operand. After
\* y = x << n, x >> n, x.rotl(n), x.rotr(n) or ~x on a boolean-masked x the
\* shares of x (masked_value and masks) are those of before the call, and an
\* expression that uses x again, x ^ y, is computed from the original x.
C30_OperandUnmodified ==
    /\ UnaryReturned => shares(loc.x) = shares(loc.copy)
    /\ pc = "expression done"
          => result.expr = List([i \in 1..loc.copy.share_count |->
                                   UXor(shares(loc.copy)[i], SharesAfter(loc.copy)[i])])

\* what the operators do: on return the object x itself holds the shifted,
\* rotated or inverted shares and is the object returned, so x ^ y is a
\* sharing of zero; an operator that raises leaves x as it was
C30_OperandIsResult ==
    /\ UnaryReturned => /\ result.returned = "self"
                        /\ shares(loc.x) = SharesAfter(loc.copy)
    /\ pc = "unary done" /\ result.raised # "none" => loc.x = loc.copy
    /\ pc = "expression done"
          => \A i \in 1..Len(result.expr) : result.expr[i] = Zeros(loc.x.bits \div 8)

\* x ^ x.rotl(1) on a boolean-masked byte: x holds the rotated shares, the
\* result is a sharing of zero, and the original x xor its rotation is not zero
C30_Witness ==
    /\ pc = "expression done"
    /\ call.op = "rotl" /\ call.distance = << 1 >>
    /\ loc.copy.bits = 8 /\ loc.copy.domain = "BOOLEAN"
    /\ result.returned = "self"
    /\ shares(loc.x) # shares(loc.copy)
    /\ unmask(loc.x) = URotl(unmask(loc.copy), 1)
    /\ result.expr[1] = << 0 >>
    /\ UXor(unmask(loc.copy), URotl(unmask(loc.copy), 1)) # << 0 >>
============================================================================
